---- MODULE Spec2Model ----
(***************************************************************************)
(* Model of the timeline converter's record pipeline (src/src/App.tsx):    *)
(* cleanData (activity removal and the two-pass deduplication),            *)
(* splitIntoChunks, and the part of processFiles that turns the combined   *)
(* record sequence into the Results shown for download.                    *)
(*                                                                         *)
(* Strings are sequences of one-character strings, so that trim() is       *)
(* computed and not assumed.  An optional value (a field that may be       *)
(* undefined, a state that may be null) is a sequence of length 0 or 1.    *)
(***************************************************************************)
EXTENDS Integers, Sequences, FiniteSets, TLC

VARIABLES
    timelineObjects,   \* the record sequence handed to cleanData / splitIntoChunks
    removeActivities,  \* useState(true), the "remove activities" checkbox
    removeDuplicates,  \* useState(true), the "remove duplicates" checkbox
    splitFiles,        \* useState(true), the "split files" checkbox
    cleanResult,       \* what cleanData returned for timelineObjects (or Null)
    againResult,       \* what cleanData returned for cleanResult's output (or Null)
    chunkSize,         \* the chunkSize argument of splitIntoChunks
    chunks,            \* what splitIntoChunks returned (or Null)
    results,           \* the Results state of the component (or null)
    files,             \* useState<File[]>([]), the files selected
    processing,        \* useState(false), a processFiles run is under way
    error,             \* useState<string | null>(null), the error shown
    processRun,        \* the processFiles call under way or last ended (or Null)
    downloaded,        \* the Results whose JSON the user last saved (or Null)
    kmlFile            \* the text convertToKML returned for timelineObjects (or Null)

vars == <<timelineObjects, removeActivities, removeDuplicates, splitFiles,
          cleanResult, againResult, chunkSize, chunks, results,
          files, processing, error, processRun, downloaded, kmlFile>>

\* the component state that only processFiles and the file handlers touch
uiVars == <<files, processing, error, processRun, downloaded>>

-----------------------------------------------------------------------------
(* Bounds of the model *)

\* longest record sequence whose content is enumerated
MaxLen == 3
\* number of values Math.random() is drawn from
NumRandom == 3

Null == <<>>
Some(x) == <<x>>

\* the component as constructed: no file selected, no run, no error
NoFiles ==
    /\ files = <<>>
    /\ processing = FALSE
    /\ error = Null
    /\ processRun = Null
    /\ downloaded = Null

-----------------------------------------------------------------------------
(* Strings *)

Whitespace == {" "}

RECURSIVE trimStart(_)
trimStart(s) ==
    IF s # <<>> /\ Head(s) \in Whitespace THEN trimStart(Tail(s)) ELSE s

RECURSIVE trimEnd(_)
trimEnd(s) ==
    IF s # <<>> /\ s[Len(s)] \in Whitespace
    THEN trimEnd(SubSeq(s, 1, Len(s) - 1))
    ELSE s

\* String.prototype.trim
trim(s) == trimEnd(trimStart(s))

-----------------------------------------------------------------------------
(* Records *)

\* placeId values: empty, blank, an id, the same id with a leading blank, another id
PlaceIds == { <<>>, <<" ">>, <<"a">>, <<" ", "a">>, <<"b">> }
\* address values: a blank one (truthy, empty once trimmed) and a non-blank one
Addresses == { <<" ">>, <<"x">> }
Latitudes == {1, 2}
Longitudes == {7}

\* interface Location (the fields cleanData reads)
Locations ==
    [latitudeE7 : Latitudes, longitudeE7 : Longitudes,
     placeId : PlaceIds, address : Addresses]

\* interface PlaceVisit
PlaceVisits == [location : Locations]

\* interface ActivitySegment (cleanData reads none of its fields)
ActivitySegments == { [distance |-> 0] }

\* interface TimelineObject without its identity: one of the two branches
Shapes ==
    { [placeVisit |-> Some(pv), activitySegment |-> Null] : pv \in PlaceVisits }
    \cup
    { [placeVisit |-> Null, activitySegment |-> Some(as)] : as \in ActivitySegments }

\* a TimelineObject: a shape and the identity of the JavaScript object
Object(shape, ref) ==
    [placeVisit |-> shape.placeVisit, activitySegment |-> shape.activitySegment,
     ref |-> ref]

isVisit(obj) == obj.placeVisit # Null

\* loc?.address && loc.address.trim() !== ''
hasAddress(obj) ==
    /\ obj.placeVisit # Null
    /\ obj.placeVisit[1].location.address # <<>>
    /\ trim(obj.placeVisit[1].location.address) # <<>>

-----------------------------------------------------------------------------
(* Map<string, TimelineObject[]>: entries in insertion order of their keys *)

mapHas(map, key) == \E i \in 1..Len(map) : map[i].key = key

mapIndex(map, key) == CHOOSE i \in 1..Len(map) : map[i].key = key

\* if (!map.has(key)) map.set(key, []); map.get(key).push(obj)
mapPush(map, key, obj) ==
    IF mapHas(map, key)
    THEN [map EXCEPT ![mapIndex(map, key)].group = Append(@, obj)]
    ELSE Append(map, [key |-> key, group |-> <<obj>>])

\* map.set(key, group): an existing key keeps its place and loses its old value
mapSet(map, key, group) ==
    IF mapHas(map, key)
    THEN [map EXCEPT ![mapIndex(map, key)].group = group]
    ELSE Append(map, [key |-> key, group |-> group])

-----------------------------------------------------------------------------
(* cleanData *)

\* mutant of withoutActivities: the test of the filter is inverted
withoutVisits(objs) == SelectSeq(objs, LAMBDA o : ~isVisit(o))

\* cleaned.filter(obj => !!obj.placeVisit)
withoutActivities(objs) == SelectSeq(objs, isVisit)

\* loc.placeId && loc.placeId.trim() !== '' ? loc.placeId.trim() : null
placeIdOf(obj) ==
    LET loc == obj.placeVisit[1].location
    IN  IF loc.placeId # <<>> /\ trim(loc.placeId) # <<>>
        THEN Some(trim(loc.placeId))
        ELSE Null

\* `${loc.latitudeE7},${loc.longitudeE7}`
latLngKey(obj) ==
    LET loc == obj.placeVisit[1].location
    IN  <<"latlng", loc.latitudeE7, loc.longitudeE7>>

\* `activity-${Math.random()}`
activityKey(r) == <<"activity", r, 0>>

\* pass 1, one iteration of cleaned.forEach
placeIdStep(acc, obj) ==
    IF ~isVisit(obj)
    THEN [acc EXCEPT !.noPlaceIdRecords = Append(@, obj)]
    ELSE IF placeIdOf(obj) # Null
    THEN [acc EXCEPT !.placeIdMap = mapPush(@, placeIdOf(obj)[1], obj)]
    ELSE [acc EXCEPT !.noPlaceIdRecords = Append(@, obj)]

\* pass 1, the first n iterations of cleaned.forEach
RECURSIVE groupByPlaceId(_, _)
groupByPlaceId(cleaned, n) ==
    IF n = 0
    THEN [placeIdMap |-> <<>>, noPlaceIdRecords |-> <<>>]
    ELSE placeIdStep(groupByPlaceId(cleaned, n - 1), cleaned[n])

\* mutant of placeIdSurvivor: the address preference is forgotten
placeIdSurvivorFirstOnly(group) == group[1]

\* the survivor of one placeId group
placeIdSurvivor(group) ==
    IF Len(group) = 1
    THEN group[1]
    ELSE LET withAddress == SelectSeq(group, hasAddress)
         IN  IF Len(withAddress) > 0 THEN withAddress[1] ELSE group[1]

\* placeIdMap.forEach(group => recordsAfterPlaceIdDedup.push(...))
recordsAfterPlaceIdDedup(placeIdMap) ==
    [i \in 1..Len(placeIdMap) |-> placeIdSurvivor(placeIdMap[i].group)]

\* mutant of allRecordsAfterPlaceIdDedup: the records set aside are forgotten
allRecordsWithoutSetAside(cleaned) ==
    recordsAfterPlaceIdDedup(groupByPlaceId(cleaned, Len(cleaned)).placeIdMap)

\* [...recordsAfterPlaceIdDedup, ...noPlaceIdRecords]
allRecordsAfterPlaceIdDedup(cleaned) ==
    LET pass1 == groupByPlaceId(cleaned, Len(cleaned))
    IN  recordsAfterPlaceIdDedup(pass1.placeIdMap) \o pass1.noPlaceIdRecords

\* pass 2, one iteration of allRecordsAfterPlaceIdDedup.forEach;
\* random[k] is what the k-th call of Math.random() returns
latLngStep(acc, obj, random) ==
    IF ~isVisit(obj)
    THEN [latLngMap |-> mapSet(acc.latLngMap,
                               activityKey(random[acc.calls + 1]), <<obj>>),
          calls |-> acc.calls + 1]
    ELSE [acc EXCEPT !.latLngMap = mapPush(@, latLngKey(obj), obj)]

\* pass 2, the first n iterations of allRecordsAfterPlaceIdDedup.forEach
RECURSIVE groupByLatLng(_, _, _)
groupByLatLng(all, random, n) ==
    IF n = 0
    THEN [latLngMap |-> <<>>, calls |-> 0]
    ELSE latLngStep(groupByLatLng(all, random, n - 1), all[n], random)

\* the survivor of one coordinate group
latLngSurvivor(group) ==
    IF Len(group) = 1
    THEN group[1]
    ELSE LET withAddress == SelectSeq(group, hasAddress)
         IN  IF Len(withAddress) > 0 THEN withAddress[1] ELSE group[1]

\* latLngMap.forEach(group => finalRecords.push(...))
finalRecords(latLngMap) ==
    [i \in 1..Len(latLngMap) |-> latLngSurvivor(latLngMap[i].group)]

\* mutant of deduplicate: the coordinate pass is left out
deduplicateByPlaceIdOnly(cleaned, random) == allRecordsAfterPlaceIdDedup(cleaned)

\* the removeDuplicates block of cleanData
deduplicate(cleaned, random) ==
    LET all == allRecordsAfterPlaceIdDedup(cleaned)
    IN  finalRecords(groupByLatLng(all, random, Len(all)).latLngMap)

\* removedActivities = beforeCount - cleaned.length
removedActivitiesCount(before, after) == Len(before) - Len(after)

\* removedDuplicates = beforeCount - cleaned.length
removedDuplicatesCount(before, after) == Len(before) - Len(after)

\* mutant of cleaningStats: the total leaves the removed activities out
cleaningStatsDuplicatesOnly(removedA, removedD) ==
    [removedActivities |-> removedA,
     removedDuplicates |-> removedD,
     totalRemoved |-> removedD]

\* the stats object cleanData returns
cleaningStats(removedA, removedD) ==
    [removedActivities |-> removedA,
     removedDuplicates |-> removedD,
     totalRemoved |-> removedA + removedD]

\* cleanData under the options ra (removeActivities) and rd (removeDuplicates)
cleanDataWith(objs, ra, rd, random) ==
    LET afterActivities == IF ra THEN withoutActivities(objs) ELSE objs
        removedA == IF ra THEN removedActivitiesCount(objs, afterActivities) ELSE 0
        cleaned == IF rd THEN deduplicate(afterActivities, random) ELSE afterActivities
        removedD == IF rd THEN removedDuplicatesCount(afterActivities, cleaned) ELSE 0
    IN  [cleaned |-> cleaned, stats |-> cleaningStats(removedA, removedD)]

\* cleanData as the component calls it: the options are component state
cleanData(objs, random) == cleanDataWith(objs, removeActivities, removeDuplicates, random)

\* number of Math.random() calls cleanData makes on objs
randomCalls(objs) ==
    IF removeDuplicates /\ ~removeActivities
    THEN Len(SelectSeq(objs, LAMBDA o : ~isVisit(o)))
    ELSE 0

\* the values a run's calls of Math.random() can return
RandomDraws(n) == [1..n -> 1..NumRandom]

-----------------------------------------------------------------------------
(* Inputs *)

\* the record sequence of shapes f, each object with its own identity
Input(f) == [i \in 1..Len(f) |-> Object(f[i], i)]

-----------------------------------------------------------------------------
(* SpecClean: cleanData applied to every input, and again to its own output *)

InitClean ==
    /\ \E n \in 0..MaxLen : \E f \in [1..n -> Shapes] : timelineObjects = Input(f)
    /\ removeActivities \in BOOLEAN
    /\ removeDuplicates \in BOOLEAN
    /\ splitFiles = TRUE
    /\ cleanResult = Null
    /\ againResult = Null
    /\ chunkSize = 0
    /\ chunks = Null
    /\ kmlFile = Null
    /\ results = Null
    /\ NoFiles

\* const { cleaned, stats } = cleanData(combinedTimelineObjects)
CleanData ==
    /\ cleanResult = Null
    /\ \E random \in RandomDraws(randomCalls(timelineObjects)) :
           cleanResult' = Some(cleanData(timelineObjects, random))
    /\ UNCHANGED <<timelineObjects, removeActivities, removeDuplicates, splitFiles,
                   againResult, chunkSize, chunks, kmlFile, results>>
    /\ UNCHANGED uiVars

\* cleanData applied to the records a previous cleanData returned
CleanAgain ==
    /\ cleanResult # Null
    /\ againResult = Null
    /\ \E random \in RandomDraws(randomCalls(cleanResult[1].cleaned)) :
           againResult' = Some(cleanData(cleanResult[1].cleaned, random))
    /\ UNCHANGED <<timelineObjects, removeActivities, removeDuplicates, splitFiles,
                   cleanResult, chunkSize, chunks, kmlFile, results>>
    /\ UNCHANGED uiVars

NextClean == CleanData \/ CleanAgain

SpecClean == InitClean /\ [][NextClean]_vars

-----------------------------------------------------------------------------
(* splitIntoChunks *)

\* mutant of slice: the end position is included
sliceInclusive(data, start, end) ==
    SubSeq(data, start + 1, IF end + 1 < Len(data) THEN end + 1 ELSE Len(data))

\* data.slice(start, end): positions start..end-1 counted from 0, end clipped
slice(data, start, end) ==
    SubSeq(data, start + 1, IF end < Len(data) THEN end ELSE Len(data))

\* for (let i = 0; i < data.length; i += chunkSize) chunks.push(data.slice(i, i + chunkSize))
RECURSIVE chunkLoop(_, _, _, _)
chunkLoop(data, size, i, acc) ==
    IF i < Len(data)
    THEN chunkLoop(data, size, i + size, Append(acc, slice(data, i, i + size)))
    ELSE acc

splitIntoChunks(data, size) == chunkLoop(data, size, 0, <<>>)

-----------------------------------------------------------------------------
(* Serializers, as far as the counts of processFiles need them *)

\* loc.latitudeE7 / 1e7
E7 == 10000000

degrees(e7) == [num |-> e7, den |-> E7]

\* the header cells of the columns modelled (the records of this model carry no
\* name and no timestamps, so Name, Start Time and End Time are left out)
csvHeader == <<"Type", "Address", "Latitude", "Longitude", "PlaceId">>

\* the row convertToCSV pushes for one object (none for an object with no branch)
csvRows(obj) ==
    IF obj.placeVisit # Null
    THEN LET loc == obj.placeVisit[1].location
         IN  << <<"Visit", loc.address, degrees(loc.latitudeE7),
                  degrees(loc.longitudeE7), loc.placeId>> >>
    ELSE IF obj.activitySegment # Null
    THEN << <<"Activity", <<>>, degrees(0), degrees(0), <<>> >> >>
    ELSE <<>>

\* data.forEach of convertToCSV over the objects lo..hi, in order (the range is
\* halved so that a long sequence needs no deep recursion)
RECURSIVE csvBody(_, _, _)
csvBody(data, lo, hi) ==
    IF lo > hi THEN <<>>
    ELSE IF lo = hi THEN csvRows(data[lo])
    ELSE LET mid == (lo + hi) \div 2
         IN  csvBody(data, lo, mid) \o csvBody(data, mid + 1, hi)

\* convertToCSV: the header row, then the rows of the objects in order
convertToCSV(data) == <<csvHeader>> \o csvBody(data, 1, Len(data))

\* convertToKML: one Placemark per object with a placeVisit, in order
placemark(obj) ==
    LET loc == obj.placeVisit[1].location
    IN  [description |-> loc.address,
         coordinates |-> <<degrees(loc.longitudeE7), degrees(loc.latitudeE7), 0>>]

\* mutant of convertToKML: the test `if (obj.placeVisit)` is forgotten
convertToKMLEveryRecord(data) ==
    [Document |->
        [k \in 1..Len(data) |->
            IF isVisit(data[k]) THEN placemark(data[k])
            ELSE [description |-> <<>>,
                  coordinates |-> <<degrees(0), degrees(0), 0>>]]]

convertToKML(data) ==
    LET visits == SelectSeq(data, isVisit)
    IN  [Document |-> [k \in 1..Len(visits) |-> placemark(visits[k])]]

\* JSON.stringify(finalData): the document, which holds values and no identities
stringify(finalData) ==
    [timelineObjects |->
        [k \in 1..Len(finalData.timelineObjects) |->
            [placeVisit |-> finalData.timelineObjects[k].placeVisit,
             activitySegment |-> finalData.timelineObjects[k].activitySegment]]]

-----------------------------------------------------------------------------
(* processFiles, from the end of the file loop to setResults *)

\* if (splitFiles && cleaned.length > 2000)
SplitThreshold == 2000

\* splitIntoChunks(cleaned, 2000)
ChunkSize == 2000

\* mutant of outputSlices: the splitFiles option is not consulted
outputSlicesAlwaysSplit(cleaned) ==
    IF Len(cleaned) > 2000
    THEN splitIntoChunks(cleaned, 2000)
    ELSE <<cleaned>>

\* the slices CSV and KML are rendered from
outputSlices(cleaned) ==
    IF splitFiles /\ Len(cleaned) > SplitThreshold
    THEN splitIntoChunks(cleaned, ChunkSize)
    ELSE <<cleaned>>

\* csvFiles.push(convertToCSV(...)) per slice
csvFiles(slices) == [k \in 1..Len(slices) |-> convertToCSV(slices[k])]

\* kmlFiles.push(convertToKML(...)) per slice
kmlFiles(slices) == [k \in 1..Len(slices) |-> convertToKML(slices[k])]

\* the object handed to setResults
makeResults(combinedTimelineObjects, random) ==
    LET run == cleanData(combinedTimelineObjects, random)
        cleaned == run.cleaned
        slices == outputSlices(cleaned)
    IN  [oldFormatJson |-> stringify([timelineObjects |-> cleaned]),
         csv |-> csvFiles(slices),
         kml |-> kmlFiles(slices),
         visitCount |-> Len(SelectSeq(cleaned, isVisit)),
         activityCount |-> Len(SelectSeq(cleaned, LAMBDA o : o.activitySegment # Null)),
         totalCount |-> Len(cleaned),
         originalCount |-> Len(combinedTimelineObjects),
         cleaningStats |-> run.stats]

-----------------------------------------------------------------------------
(* Long inputs: record sequences around the 2,000-record threshold *)

\* longest long input, in whole chunks (plus a remainder)
MaxBigChunks == 2

BigSizes ==
    { n \in { k * ChunkSize + d : k \in 0..MaxBigChunks, d \in {0 - 1, 0, 1, 500} } :
        n >= 0 }

BigKinds == {"visits", "activities", "mixed"}

\* the i-th record of a long input: a visit at its own coordinates, or an activity
BigShape(kind, i) ==
    IF kind = "visits" \/ (kind = "mixed" /\ i % 2 = 1)
    THEN [placeVisit |-> Some([location |-> [latitudeE7 |-> i, longitudeE7 |-> 7,
                                              placeId |-> <<>>, address |-> <<" ">>]]),
          activitySegment |-> Null]
    ELSE [placeVisit |-> Null, activitySegment |-> Some([distance |-> 0])]

BigInput(kind, n) == [i \in 1..n |-> Object(BigShape(kind, i), i)]

-----------------------------------------------------------------------------
(* SpecChunk: splitIntoChunks applied to short inputs with small chunk sizes *)
(* and to long inputs with the chunk size of processFiles                    *)

\* largest chunk size tried on the short inputs
MaxChunkSize == 2

InitChunk ==
    /\ \/ /\ \E n \in 0..MaxLen : \E f \in [1..n -> Shapes] : timelineObjects = Input(f)
          /\ chunkSize \in 1..MaxChunkSize
       \/ /\ \E kind \in BigKinds : \E n \in BigSizes : timelineObjects = BigInput(kind, n)
          /\ chunkSize = ChunkSize
    /\ removeActivities = TRUE
    /\ removeDuplicates = TRUE
    /\ splitFiles = TRUE
    /\ cleanResult = Null
    /\ againResult = Null
    /\ chunks = Null
    /\ kmlFile = Null
    /\ results = Null
    /\ NoFiles

SplitIntoChunks ==
    /\ chunks = Null
    /\ chunks' = Some(splitIntoChunks(timelineObjects, chunkSize))
    /\ UNCHANGED <<timelineObjects, removeActivities, removeDuplicates, splitFiles,
                   cleanResult, againResult, chunkSize, results, kmlFile>>
    /\ UNCHANGED uiVars

NextChunk == SplitIntoChunks

SpecChunk == InitChunk /\ [][NextChunk]_vars

-----------------------------------------------------------------------------
(* SpecProcess: the end of processFiles applied to a combined record sequence: *)
(* every short input under every option combination, and the long inputs with *)
(* removeDuplicates disabled (their records are pairwise distinct places)      *)

InitProcess ==
    /\ removeActivities \in BOOLEAN
    /\ removeDuplicates \in BOOLEAN
    /\ splitFiles \in BOOLEAN
    /\ \/ \E n \in 0..MaxLen : \E f \in [1..n -> Shapes] : timelineObjects = Input(f)
       \/ \E kind \in BigKinds : \E n \in BigSizes :
              /\ ~removeDuplicates
              /\ timelineObjects = BigInput(kind, n)
    /\ cleanResult = Null
    /\ againResult = Null
    /\ chunkSize = ChunkSize
    /\ chunks = Null
    /\ kmlFile = Null
    /\ results = Null
    /\ NoFiles

\* processFiles after the last file is read: cleanData, the slices, setResults
FinishProcessFiles ==
    /\ results = Null
    /\ \E random \in RandomDraws(randomCalls(timelineObjects)) :
           results' = Some(makeResults(timelineObjects, random))
    /\ UNCHANGED <<timelineObjects, removeActivities, removeDuplicates, splitFiles,
                   cleanResult, againResult, chunkSize, chunks, kmlFile>>
    /\ UNCHANGED uiVars

NextProcess == FinishProcessFiles

SpecProcess == InitProcess /\ [][NextProcess]_vars

-----------------------------------------------------------------------------
(* Vocabulary of the claims about cleanData *)

Cleaned == cleanResult[1].cleaned

\* the refs of the objects of a sequence
Refs(objs) == { objs[i].ref : i \in 1..Len(objs) }

\* how often the object ref occurs in a sequence
Occurrences(objs, ref) == Cardinality({ i \in 1..Len(objs) : objs[i].ref = ref })

\* positions of the PlaceVisits of the input
VisitIdx == { i \in 1..Len(timelineObjects) : timelineObjects[i].placeVisit # Null }

LocOf(i) == timelineObjects[i].placeVisit[1].location

\* the trimmed placeId of input record i, <<>> when it has none
IdOf(i) == trim(LocOf(i).placeId)

CoordOf(i) == <<LocOf(i).latitudeE7, LocOf(i).longitudeE7>>

AddressBearing(i) == trim(LocOf(i).address) # <<>>

\* the claims' key of a PlaceVisit: trimmed placeId, else the coordinate pair
KeyOf(i) == IF IdOf(i) # <<>> THEN <<"placeId", IdOf(i)>> ELSE <<"latlng", CoordOf(i)>>

SameId(i, j) == IdOf(i) # <<>> /\ IdOf(i) = IdOf(j)

SameCoord(i, j) == CoordOf(i) = CoordOf(j)

\* input record i is in cleanData's output
Kept(i) == timelineObjects[i].ref \in Refs(Cleaned)

Min(S) == CHOOSE x \in S : \A y \in S : x <= y

\* the record the preference rule names in a set of input positions
Preferred(S) ==
    IF \E i \in S : AddressBearing(i)
    THEN Min({ i \in S : AddressBearing(i) })
    ELSE Min(S)

\* PlaceVisits linked through a chain of shared placeIds or shared coordinates
RECURSIVE LinkedTo(_)
LinkedTo(S) ==
    LET more == { j \in VisitIdx : \E i \in S : SameId(i, j) \/ SameCoord(i, j) }
    IN  IF more \subseteq S THEN S ELSE LinkedTo(S \cup more)

LinkedGroups == { LinkedTo({i}) : i \in VisitIdx }

DistinctKeys == { KeyOf(i) : i \in VisitIdx }

CleanedVisits == SelectSeq(Cleaned, isVisit)

-----------------------------------------------------------------------------
(* C1 *)

\* C1 (as claimed): cleanData with removeDuplicates enabled, run on the output of
\* a cleanData run with removeDuplicates enabled, removes no further record:
\* removedDuplicates = 0 and the record count is unchanged.
C1_DedupIdempotent ==
    (removeDuplicates /\ againResult # Null) =>
        /\ againResult[1].stats.removedDuplicates = 0
        /\ Len(againResult[1].cleaned) = Len(Cleaned)

-----------------------------------------------------------------------------
(* C2 *)

-----------------------------------------------------------------------------
(* C3 *)

-----------------------------------------------------------------------------
(* C4 *)

\* C4 (as claimed): with removeDuplicates enabled cleanData never removes a
\* PlaceVisit whose address is non-blank.
C4_AddressNeverRemoved ==
    (removeDuplicates /\ cleanResult # Null) =>
        \A i \in VisitIdx : AddressBearing(i) => Kept(i)

-----------------------------------------------------------------------------
(* C5 *)

\* C5 (as claimed): with removeDuplicates enabled and removeActivities disabled
\* every input record without a placeVisit is in the output exactly as often as
\* in the input, whatever Math.random() returns.
C5_NonVisitsUntouched ==
    (removeDuplicates /\ ~removeActivities /\ cleanResult # Null) =>
        \A i \in 1..Len(timelineObjects) :
            i \notin VisitIdx =>
                Occurrences(Cleaned, timelineObjects[i].ref) = 1

-----------------------------------------------------------------------------
(* C6 *)

\* C6 (as claimed): every PlaceVisit that cleanData removes as a duplicate has
\* the same trimmed non-empty placeId or the same coordinate pair as some
\* PlaceVisit in the output.
C6_RemovedHasTwinInOutput ==
    (removeDuplicates /\ cleanResult # Null) =>
        \A i \in VisitIdx :
            ~Kept(i) => \E j \in VisitIdx :
                            Kept(j) /\ (SameId(i, j) \/ SameCoord(i, j))

-----------------------------------------------------------------------------
(* C7 *)

\* C7 (as claimed): among PlaceVisits at one coordinate pair that all have, or
\* all lack, a non-blank address, the record that survives deduplication is
\* the one that comes first in the input, with or without placeIds.
C7_FirstInInputSurvives ==
    (removeDuplicates /\ cleanResult # Null) =>
        \A i \in VisitIdx :
            LET group == { j \in VisitIdx : SameCoord(i, j) }
            IN  ( /\ Cardinality(group) >= 2
                  /\ \A j \in group : AddressBearing(j) = AddressBearing(i) )
                => \A j \in group : Kept(j) => j = Min(group)

-----------------------------------------------------------------------------
(* C8 *)

Result == results[1]

NonVisitCount == Len(timelineObjects) - Cardinality(VisitIdx)

\* the record count when pass 1 starts
CountBeforePass1 ==
    IF removeActivities THEN Cardinality(VisitIdx) ELSE Len(timelineObjects)

\* C8: for every input and option combination removedDuplicates is the record
\* count before pass 1 minus the count after pass 2, totalRemoved is the sum of
\* the two counters, originalCount - totalRemoved = totalCount (the final
\* record count), and a disabled step reports 0 removed.
C8_CountBookkeeping ==
    results # Null =>
        LET stats == Result.cleaningStats
            final == Len(Result.oldFormatJson.timelineObjects)
        IN  /\ Result.originalCount = Len(timelineObjects)
            /\ Result.totalCount = final
            /\ stats.removedActivities =
                   (IF removeActivities THEN NonVisitCount ELSE 0)
            /\ stats.removedDuplicates =
                   (IF removeDuplicates THEN CountBeforePass1 - final ELSE 0)
            /\ stats.totalRemoved = stats.removedActivities + stats.removedDuplicates
            /\ Result.originalCount - stats.totalRemoved = Result.totalCount

\* a run in which both steps removed something
C8_Witness ==
    /\ results # Null
    /\ removeActivities /\ removeDuplicates
    /\ Result.cleaningStats.removedActivities > 0
    /\ Result.cleaningStats.removedDuplicates > 0
    /\ Result.totalCount > 0

-----------------------------------------------------------------------------
(* C9 *)

RECURSIVE Concat(_)
Concat(seqs) == IF seqs = <<>> THEN <<>> ELSE Head(seqs) \o Concat(Tail(seqs))

\* C9: the slices of splitIntoChunks, concatenated in order, are the input
\* sequence; no slice has more than chunkSize records, none is empty, and every
\* slice but the last has exactly chunkSize records.
C9_ChunkingLossless ==
    chunks # Null =>
        LET cs == chunks[1]
        IN  /\ Concat(cs) = timelineObjects
            /\ \A k \in 1..Len(cs) : Len(cs[k]) >= 1 /\ Len(cs[k]) <= chunkSize
            /\ \A k \in 1..(Len(cs) - 1) : Len(cs[k]) = chunkSize

\* 4,500 records cut into 2000 / 2000 / 500
C9_Witness ==
    /\ chunks # Null
    /\ chunkSize = 2000
    /\ Len(timelineObjects) = 4500
    /\ Len(chunks[1]) = 3
    /\ Len(chunks[1][3]) = 500

-----------------------------------------------------------------------------
(* C10 *)

\* number of records rendered into the k-th CSV (its rows but the header)
CsvRecords(k) == Len(Result.csv[k]) - 1

\* C10: with splitFiles enabled and more than 2,000 cleaned records there is one
\* CSV and one KML per slice, ceil(n / 2000) of each, every slice but the last
\* with 2,000 records; otherwise there is exactly one CSV and one KML; the two
\* counts are always equal and the JSON output is one document with all
\* cleaned records.
C10_ArtifactCounts ==
    results # Null =>
        LET n == Result.totalCount
            m == (n + 1999) \div 2000
        IN  /\ Len(Result.csv) = Len(Result.kml)
            /\ IF splitFiles /\ n > 2000
               THEN /\ Len(Result.csv) = m
                    /\ \A k \in 1..(m - 1) : CsvRecords(k) = 2000
                    /\ CsvRecords(m) = n - 2000 * (m - 1)
               ELSE /\ Len(Result.csv) = 1
                    /\ CsvRecords(1) = n
            /\ Len(Result.oldFormatJson.timelineObjects) = n
            /\ ~removeDuplicates =>
                   Len(Result.oldFormatJson.timelineObjects) = CountBeforePass1

\* 4,500 cleaned records with splitFiles: 3 CSVs and 3 KMLs, 2000 / 2000 / 500
C10_Witness ==
    /\ results # Null
    /\ splitFiles
    /\ Result.totalCount = 4500
    /\ Len(Result.csv) = 3 /\ Len(Result.kml) = 3
    /\ CsvRecords(1) = 2000 /\ CsvRecords(2) = 2000 /\ CsvRecords(3) = 500
    /\ Len(Result.oldFormatJson.timelineObjects) = 4500

-----------------------------------------------------------------------------
(* JavaScript values: what JSON.parse returns and what the normalizer builds. *)
(* Every value has the same five fields, so that any two can be compared:     *)
(* t is the kind, n the number, s the characters of a string, keys and items  *)
(* the property names and values of an object (items alone: an array).        *)

JValue(t, n, s, keys, items) ==
    [t |-> t, n |-> n, s |-> s, keys |-> keys, items |-> items]

JUndefined == JValue("undefined", 0, <<>>, <<>>, <<>>)
JNull == JValue("null", 0, <<>>, <<>>, <<>>)
JBool(b) == JValue("boolean", IF b THEN 1 ELSE 0, <<>>, <<>>, <<>>)
JNum(n) == JValue("number", n, <<>>, <<>>, <<>>)
\* NaN, a number that equals no number
JNaN == JValue("NaN", 0, <<>>, <<>>, <<>>)
JStr(s) == JValue("string", 0, s, <<>>, <<>>)
JArr(items) == JValue("array", 0, <<>>, <<>>, items)
JObj(keys, items) == JValue("object", 0, <<>>, keys, items)

\* the value in a condition: if (v), v && ..., v || ..., !!v
truthy(v) ==
    CASE v.t \in {"undefined", "null", "NaN"} -> FALSE
      [] v.t \in {"boolean", "number"} -> v.n # 0
      [] v.t = "string" -> v.s # <<>>
      [] OTHER -> TRUE

\* Array.isArray(v)
isArray(v) == v.t = "array"

\* typeof v === 'object'
typeofObject(v) == v.t \in {"object", "array", "null"}

\* typeof v === 'string'
typeofString(v) == v.t = "string"

\* reading a property of v does not throw a TypeError
readable(v) == v.t \notin {"undefined", "null"}

hasKey(v, k) == v.t = "object" /\ \E i \in 1..Len(v.keys) : v.keys[i] = k

\* v.k and v?.k: the property, undefined when v has none (the names read by
\* the program are no properties of an array, a string, a number or a boolean)
get(v, k) ==
    IF hasKey(v, k)
    THEN v.items[CHOOSE i \in 1..Len(v.keys) : v.keys[i] = k]
    ELSE JUndefined

\* v.length
lengthOf(v) ==
    CASE v.t = "array" -> JNum(Len(v.items))
      [] v.t = "string" -> JNum(Len(v.s))
      [] OTHER -> get(v, "length")

\* v[i], i counted from 0
at(v, i) ==
    CASE v.t = "array" /\ i >= 0 /\ i < Len(v.items) -> v.items[i + 1]
      [] v.t = "string" /\ i >= 0 /\ i < Len(v.s) -> JStr(<<v.s[i + 1]>>)
      [] OTHER -> JUndefined

\* Object.keys(v) of a readable v: the property names, the indices of an array
\* or a string, nothing for a number or a boolean
objectKeys(v) ==
    CASE v.t = "object" -> v.keys
      [] v.t = "array" -> [i \in 1..Len(v.items) |-> ToString(i - 1)]
      [] v.t = "string" -> [i \in 1..Len(v.s) |-> ToString(i - 1)]
      [] OTHER -> <<>>

-----------------------------------------------------------------------------
(* parseLatLng.  The coordinate strings of this model hold whole degrees: *)
(* digits with an optional sign, no fraction and no exponent.             *)

Digits == <<"0", "1", "2", "3", "4", "5", "6", "7", "8", "9">>

isDigit(c) == \E d \in 1..10 : Digits[d] = c

digitValue(c) == (CHOOSE d \in 1..10 : Digits[d] = c) - 1

\* s.startsWith(prefix)
startsWith(s, prefix) ==
    Len(s) >= Len(prefix) /\ SubSeq(s, 1, Len(prefix)) = prefix

\* s.replace(pattern, ''): the first occurrence of pattern is taken out
RECURSIVE removeFirst(_, _)
removeFirst(s, pattern) ==
    IF s = <<>> THEN <<>>
    ELSE IF startsWith(s, pattern) THEN SubSeq(s, Len(pattern) + 1, Len(s))
    ELSE <<Head(s)>> \o removeFirst(Tail(s), pattern)

\* s.split(separator): the pieces between the occurrences of separator
RECURSIVE splitFrom(_, _, _)
splitFrom(s, separator, piece) ==
    IF s = <<>> THEN <<piece>>
    ELSE IF startsWith(s, separator)
    THEN <<piece>> \o splitFrom(SubSeq(s, Len(separator) + 1, Len(s)), separator, <<>>)
    ELSE splitFrom(Tail(s), separator, Append(piece, Head(s)))

split(s, separator) == splitFrom(s, separator, <<>>)

\* the value of the longest prefix of digits of s, read after the digits acc
RECURSIVE digitsValue(_, _)
digitsValue(s, acc) ==
    IF s # <<>> /\ isDigit(Head(s))
    THEN digitsValue(Tail(s), 10 * acc + digitValue(Head(s)))
    ELSE acc

\* parseFloat of a string: leading blanks, a sign, digits; NaN without a digit
parseFloatString(s) ==
    LET t == trimStart(s)
        negative == t # <<>> /\ Head(t) = "-"
        signed == t # <<>> /\ Head(t) \in {"-", "+"}
        u == IF signed THEN Tail(t) ELSE t
    IN  IF u # <<>> /\ isDigit(Head(u))
        THEN JNum(IF negative THEN 0 - digitsValue(u, 0) ELSE digitsValue(u, 0))
        ELSE JNaN

\* parseFloat(v): v is turned into a string first; undefined, null, an object
\* or a boolean give NaN, a number gives itself (no array is parsed here)
parseFloat(v) ==
    CASE v.t = "string" -> parseFloatString(v.s)
      [] v.t = "number" -> v
      [] OTHER -> JNaN

\* parseFloat(pieces[i]), i counted from 0 (a missing piece is undefined)
parseFloatAt(pieces, i) ==
    IF i < Len(pieces) THEN parseFloatString(pieces[i + 1]) ELSE JNaN

\* parseLatLng(latLngStr) throws: latLngStr is truthy and has no startsWith
parseLatLngThrows(v) == truthy(v) /\ ~typeofString(v)

\* parseLatLng(latLngStr) when it returns
parseLatLng(v) ==
    IF ~truthy(v) THEN [lat |-> JNum(0), lng |-> JNum(0)]
    ELSE IF startsWith(v.s, <<"g", "e", "o", ":">>)
    THEN LET coords == split(removeFirst(v.s, <<"g", "e", "o", ":">>), <<",">>)
         IN  [lat |-> parseFloatAt(coords, 0), lng |-> parseFloatAt(coords, 1)]
    ELSE LET parts == split(removeFirst(v.s, <<"°">>), <<",", " ">>)
         IN  [lat |-> parseFloatAt(parts, 0), lng |-> parseFloatAt(parts, 1)]

\* Math.round(x * 1e7)
roundE7(x) == IF x.t = "number" THEN JNum(x.n * E7) ELSE JNaN

-----------------------------------------------------------------------------
(* convertNewToOld *)

\* a || b
orElse(a, b) == IF truthy(a) THEN a ELSE b

\* a line of the processing log: what it reports, about which file, with
\* which number (a count or an index) and which names (keys)
LogEntry(kind, filename, n, names) ==
    [kind |-> kind, file |-> filename, n |-> n, names |-> names]

\* the place of a visit or the start / end of an activity: a coordinate string,
\* or an object whose latLng is one; neither: parseLatLng is not called
coordinateSource(place) ==
    IF typeofString(place) THEN Some(place)
    ELSE IF truthy(get(place, "latLng")) THEN Some(get(place, "latLng"))
    ELSE Null

coordsOf(place) ==
    IF coordinateSource(place) = Null
    THEN [lat |-> JNum(0), lng |-> JNum(0)]
    ELSE parseLatLng(coordinateSource(place)[1])

coordsThrow(place) ==
    coordinateSource(place) # Null /\ parseLatLngThrows(coordinateSource(place)[1])

\* { startTimestamp: segment.startTime || segment.startTimestamp, ... }
durationOf(segment) ==
    JObj(<<"startTimestamp", "endTimestamp">>,
         <<orElse(get(segment, "startTime"), get(segment, "startTimestamp")),
           orElse(get(segment, "endTime"), get(segment, "endTimestamp"))>>)

\* { latitudeE7: Math.round(lat * 1e7), longitudeE7: Math.round(lng * 1e7) }
pointOf(coords) ==
    JObj(<<"latitudeE7", "longitudeE7">>, <<roundE7(coords.lat), roundE7(coords.lng)>>)

TypeUnknown == JStr(<<"T", "Y", "P", "E", "_", "U", "N", "K", "N", "O", "W", "N">>)

\* Math.round((parseFloat(p) || 0) * 100)
confidenceOf(p) ==
    LET q == orElse(parseFloat(p), JNum(0)) IN JNum(q.n * 100)

\* the object pushed for a segment with a visit
visitRecord(segment) ==
    LET visit == get(segment, "visit")
        topCandidate == orElse(get(visit, "topCandidate"), JObj(<<>>, <<>>))
        placeLocation == get(topCandidate, "placeLocation")
        coords == coordsOf(placeLocation)
        location ==
            JObj(<<"latitudeE7", "longitudeE7", "placeId", "name", "address",
                   "semanticType">>,
                 <<roundE7(coords.lat), roundE7(coords.lng),
                   orElse(get(topCandidate, "placeId"), JStr(<<>>)),
                   orElse(get(placeLocation, "name"), JStr(<<>>)),
                   orElse(get(placeLocation, "address"), JStr(<<>>)),
                   orElse(get(topCandidate, "semanticType"), TypeUnknown)>>)
    IN  JObj(<<"placeVisit">>,
             <<JObj(<<"location", "duration", "centerLatE7", "centerLngE7",
                      "visitConfidence">>,
                    <<location, durationOf(segment), roundE7(coords.lat),
                      roundE7(coords.lng),
                      confidenceOf(get(visit, "probability"))>>)>>)

\* the object pushed for a segment with an activity
activityRecord(segment) ==
    LET activity == get(segment, "activity")
        topCandidate == orElse(get(activity, "topCandidate"), JObj(<<>>, <<>>))
        activities ==
            IF truthy(get(topCandidate, "type"))
            THEN JArr(<<JObj(<<"activityType", "probability">>,
                             <<get(topCandidate, "type"),
                               orElse(parseFloat(get(topCandidate, "probability")),
                                      JNum(0))>>)>>)
            ELSE JArr(<<>>)
    IN  JObj(<<"activitySegment">>,
             <<JObj(<<"startLocation", "endLocation", "duration", "distance",
                      "activities">>,
                    <<pointOf(coordsOf(get(activity, "start"))),
                      pointOf(coordsOf(get(activity, "end"))),
                      durationOf(segment),
                      orElse(parseFloat(get(activity, "distanceMeters")), JNum(0)),
                      activities>>)>>)

\* path.length > 0
hasPoints(path) == lengthOf(path).t = "number" /\ lengthOf(path).n > 0

firstOf(path) == at(path, 0)
lastOf(path) == at(path, lengthOf(path).n - 1)

\* the object pushed for a segment with a timelinePath of at least one point
pathRecord(segment) ==
    LET path == get(segment, "timelinePath")
    IN  JObj(<<"activitySegment">>,
             <<JObj(<<"startLocation", "endLocation", "duration">>,
                    <<pointOf(parseLatLng(get(firstOf(path), "point"))),
                      pointOf(parseLatLng(get(lastOf(path), "point"))),
                      durationOf(segment)>>)>>)

\* the body of the try block throws for this segment
segmentThrows(segment) ==
    IF ~readable(segment) THEN TRUE
    ELSE IF truthy(get(segment, "visit"))
    THEN LET visit == get(segment, "visit")
             topCandidate == orElse(get(visit, "topCandidate"), JObj(<<>>, <<>>))
         IN  coordsThrow(get(topCandidate, "placeLocation"))
    ELSE IF truthy(get(segment, "activity"))
    THEN LET activity == get(segment, "activity")
         IN  coordsThrow(get(activity, "start")) \/ coordsThrow(get(activity, "end"))
    ELSE IF truthy(get(segment, "timelinePath"))
    THEN LET path == get(segment, "timelinePath")
         IN  hasPoints(path) /\
                 \/ ~readable(firstOf(path))
                 \/ parseLatLngThrows(get(firstOf(path), "point"))
                 \/ ~readable(lastOf(path))
                 \/ parseLatLngThrows(get(lastOf(path), "point"))
    ELSE FALSE

\* mutant of segmentRecords: a timelinePath without points is not tested for
segmentRecordsForEveryPath(segment) ==
    IF truthy(get(segment, "visit")) THEN <<visitRecord(segment)>>
    ELSE IF truthy(get(segment, "activity")) THEN <<activityRecord(segment)>>
    ELSE IF truthy(get(segment, "timelinePath")) THEN <<pathRecord(segment)>>
    ELSE <<>>

\* the objects the try block pushes for a segment it does not throw on
segmentRecords(segment) ==
    IF truthy(get(segment, "visit")) THEN <<visitRecord(segment)>>
    ELSE IF truthy(get(segment, "activity")) THEN <<activityRecord(segment)>>
    ELSE IF truthy(get(segment, "timelinePath"))
         /\ hasPoints(get(segment, "timelinePath"))
    THEN <<pathRecord(segment)>>
    ELSE <<>>

\* mutant of convertSegment: a segment that throws still leaves a record
convertSegmentKeepingFailed(acc, segment, index, filename) ==
    IF segmentThrows(segment)
    THEN [timelineObjects |-> Append(acc.timelineObjects, JObj(<<>>, <<>>)),
          logs |-> Append(acc.logs, LogEntry("ERROR processing segment", filename,
                                             index, <<>>))]
    ELSE [acc EXCEPT !.timelineObjects = @ \o segmentRecords(segment)]

\* one iteration of segments.forEach: try { ... } catch { logs.push(...) }
convertSegment(acc, segment, index, filename) ==
    IF segmentThrows(segment)
    THEN [acc EXCEPT !.logs = Append(@, LogEntry("ERROR processing segment",
                                                 filename, index, <<>>))]
    ELSE [acc EXCEPT !.timelineObjects = @ \o segmentRecords(segment)]

\* the first n iterations of segments.forEach
RECURSIVE convertSegments(_, _, _, _)
convertSegments(segments, n, filename, start) ==
    IF n = 0 THEN start
    ELSE convertSegment(convertSegments(segments, n - 1, filename, start),
                        segments[n], n - 1, filename)

\* the segment list convertNewToOld picks (undefined: the format is unknown)
segmentsOf(newData) ==
    IF isArray(newData) THEN newData
    ELSE IF truthy(get(newData, "semanticSegments"))
    THEN get(newData, "semanticSegments")
    ELSE JUndefined

\* convertNewToOld throws: segments.forEach is no function
convertNewToOldThrows(newData) ==
    segmentsOf(newData) # JUndefined /\ ~isArray(segmentsOf(newData))

\* convertNewToOld(newData, filename) when it returns
convertNewToOld(newData, filename) ==
    LET segments == segmentsOf(newData)
    IN  IF segments = JUndefined
        THEN [timelineObjects |-> <<>>,
              logs |-> <<LogEntry("ERROR: Unknown format", filename, 0, <<>>)>>]
        ELSE LET detected ==
                     IF isArray(newData)
                     THEN LogEntry("Detected iOS/Apple format", filename, 0, <<>>)
                     ELSE LogEntry("Detected Android format", filename, 0, <<>>)
                 start ==
                     [timelineObjects |-> <<>>,
                      logs |-> <<detected,
                                 LogEntry("Processing segments", filename,
                                          Len(segments.items), <<>>)>>]
                 done == convertSegments(segments.items, Len(segments.items),
                                         filename, start)
             IN  [done EXCEPT !.logs =
                      Append(@, LogEntry("Successfully converted", filename,
                                         Len(done.timelineObjects), <<>>))]

-----------------------------------------------------------------------------
(* The records of a run.  processFiles holds them as the objects that          *)
(* convertNewToOld built or JSON.parse returned (`any` values); cleanData and  *)
(* the serializers read them through the interface TimelineObject.             *)

\* the characters of a placeId, name or address as the code reads it: a string
\* as it is, no character for a falsy value, String(v) for a number
textOf(v) ==
    CASE v.t = "string" -> v.s
      [] v.t = "number" /\ v.n # 0 -> <<ToString(v.n)>>
      [] OTHER -> <<>>

rawVisit(raw) == get(raw, "placeVisit")
rawLocation(raw) == get(rawVisit(raw), "location")
rawActivity(raw) == get(raw, "activitySegment")

\* the object raw as a TimelineObject; ref is its position in
\* combinedTimelineObjects
asTimelineObject(raw, ref) ==
    [placeVisit |->
         IF truthy(rawVisit(raw))
         THEN Some([location |->
                        [latitudeE7 |-> get(rawLocation(raw), "latitudeE7"),
                         longitudeE7 |-> get(rawLocation(raw), "longitudeE7"),
                         placeId |-> textOf(get(rawLocation(raw), "placeId")),
                         address |-> textOf(get(rawLocation(raw), "address"))]])
         ELSE Null,
     activitySegment |->
         IF truthy(rawActivity(raw))
         THEN Some([distance |-> get(rawActivity(raw), "distance")])
         ELSE Null,
     ref |-> ref]

asTimelineObjects(raws) == [i \in 1..Len(raws) |-> asTimelineObject(raws[i], i)]

\* v.trim() and v.replace() throw: v is truthy and no string
notAString(v) == truthy(v) /\ ~typeofString(v)

\* cleaned.filter(obj => !!obj.placeVisit) throws: an object is null
filterThrows(raws) == \E i \in 1..Len(raws) : ~readable(raws[i])

\* pass 1 throws on the object raw: it is null, its placeVisit has no
\* location, or its placeId has no trim
placeIdThrows(raw) ==
    \/ ~readable(raw)
    \/ /\ truthy(rawVisit(raw))
       /\ \/ ~readable(rawLocation(raw))
          \/ notAString(get(rawLocation(raw), "placeId"))

\* group.filter(...) throws in a group of two or more: an address has no trim
groupThrows(group, raws) ==
    /\ Len(group) > 1
    /\ \E k \in 1..Len(group) :
           notAString(get(rawLocation(raws[group[k].ref]), "address"))

mapThrows(map, raws) == \E i \in 1..Len(map) : groupThrows(map[i].group, raws)

\* the removeDuplicates block throws on the objects cleaned (of raws)
deduplicateThrows(cleaned, raws) ==
    \/ \E k \in 1..Len(cleaned) : placeIdThrows(raws[cleaned[k].ref])
    \/ mapThrows(groupByPlaceId(cleaned, Len(cleaned)).placeIdMap, raws)
    \/ LET all == allRecordsAfterPlaceIdDedup(cleaned)
           random == [k \in 1..Len(all) |-> k]
       IN  mapThrows(groupByLatLng(all, random, Len(all)).latLngMap, raws)

\* cleanData(raws) throws a TypeError under the options ra and rd
cleanDataThrows(raws, ra, rd) ==
    \/ ra /\ filterThrows(raws)
    \/ /\ rd
       /\ ~(ra /\ filterThrows(raws))
       /\ deduplicateThrows(
              IF ra THEN withoutActivities(asTimelineObjects(raws))
              ELSE asTimelineObjects(raws), raws)

\* convertToCSV(data) or convertToKML(data) throws on the object raw
serializeThrows(raw) ==
    \/ ~readable(raw)
    \/ /\ truthy(rawVisit(raw))
       /\ \/ ~readable(rawLocation(raw))
          \/ ~readable(get(rawVisit(raw), "duration"))
          \/ notAString(get(rawLocation(raw), "name"))
    \/ /\ ~truthy(rawVisit(raw))
       /\ truthy(rawActivity(raw))
       /\ \/ ~readable(get(rawActivity(raw), "startLocation"))
          \/ ~readable(get(rawActivity(raw), "duration"))

-----------------------------------------------------------------------------
(* JSON.stringify and JSON.parse *)

\* what JSON.parse(JSON.stringify(v)) returns for a value inside a document:
\* NaN and undefined become null in an array, a property that is undefined
\* is left out, NaN in a property becomes null
RECURSIVE jsonValue(_)
jsonValue(v) ==
    CASE v.t \in {"NaN", "undefined"} -> JNull
      [] v.t = "array" ->
            JArr([i \in 1..Len(v.items) |-> jsonValue(v.items[i])])
      [] v.t = "object" ->
            LET kept == SelectSeq([i \in 1..Len(v.keys) |-> i],
                                  LAMBDA i : v.items[i].t # "undefined")
            IN  JObj([k \in 1..Len(kept) |-> v.keys[kept[k]]],
                     [k \in 1..Len(kept) |-> jsonValue(v.items[kept[k]])])
      [] OTHER -> v

\* mutant of jsonDocument: an empty record list is written as no key at all
jsonDocumentOmittingEmpty(raws) ==
    IF raws = <<>> THEN JObj(<<>>, <<>>)
    ELSE jsonValue(JObj(<<"timelineObjects">>, <<JArr(raws)>>))

\* JSON.stringify({ timelineObjects: cleaned }, null, 2), as the document
\* that JSON.parse reads from that text
jsonDocument(raws) == jsonValue(JObj(<<"timelineObjects">>, <<JArr(raws)>>))

-----------------------------------------------------------------------------
(* processFiles *)

\* a File: its name and what JSON.parse(await file.text()) returns (Null: it
\* throws a SyntaxError)
File(name, parsed) == [name |-> name, parsed |-> parsed]

\* the message of an Error: the text it starts with, the file names it
\* contains, and the keys it lists after "Found keys:" (Null: it lists none)
ErrorMessage(kind, names, keys) == [kind |-> kind, names |-> names, keys |-> keys]

\* a TypeError of the JavaScript engine: its message names no file
TypeError == ErrorMessage("TypeError", <<>>, Null)

\* [...combinedTimelineObjects, ...data.timelineObjects] throws: the value
\* is not iterable
spreadThrows(v) == v.t \notin {"array", "string"}

\* the elements the spread takes out of v
spread(v) ==
    IF v.t = "array" THEN v.items ELSE [i \in 1..Len(v.s) |-> JStr(<<v.s[i]>>)]

\* what one iteration of `for (const file of files)` leaves
Iteration(failed, message, objects, logs) ==
    [failed |-> failed, message |-> message, objects |-> objects, logs |-> logs]

\* mutant of combine: the records of the files read before are forgotten
combineForgetting(combined, objects) == objects

\* combinedTimelineObjects = [...combinedTimelineObjects, ...timelineObjects]
combine(combined, objects) == combined \o objects

\* the branch of `if (Array.isArray(data) || data.semanticSegments) ...
\* else if (data.timelineObjects) ... else ...` taken for a readable data
detect(data) ==
    IF isArray(data) THEN "array"
    ELSE IF truthy(get(data, "semanticSegments")) THEN "semanticSegments"
    ELSE IF truthy(get(data, "timelineObjects")) THEN "timelineObjects"
    ELSE "unrecognized"

\* mutant of processFile: a file of unrecognized format is skipped
processFileSkippingUnrecognized(file) ==
    IF file.parsed = Null
    THEN Iteration(TRUE, ErrorMessage("Failed to parse", <<file.name>>, Null),
                   <<>>, <<>>)
    ELSE IF ~readable(file.parsed[1]) \/ detect(file.parsed[1]) = "unrecognized"
    THEN Iteration(FALSE, TypeError, <<>>, <<>>)
    ELSE IF detect(file.parsed[1]) = "timelineObjects"
    THEN Iteration(FALSE, TypeError,
                   spread(get(file.parsed[1], "timelineObjects")), <<>>)
    ELSE Iteration(FALSE, TypeError,
                   convertNewToOld(file.parsed[1], file.name).timelineObjects,
                   convertNewToOld(file.parsed[1], file.name).logs)

\* the body of the file loop for one file, from JSON.parse on
processFile(file) ==
    IF file.parsed = Null
    THEN Iteration(TRUE, ErrorMessage("Failed to parse", <<file.name>>, Null),
                   <<>>,
                   <<LogEntry("ERROR: Failed to parse JSON", file.name, 0, <<>>)>>)
    ELSE
    LET data == file.parsed[1]
        parsedLog == LogEntry("Successfully parsed JSON", file.name, 0, <<>>)
        shapeLog ==
            IF isArray(data)
            THEN <<LogEntry("Data is an array", file.name, Len(data.items), <<>>)>>
            ELSE IF typeofObject(data)
            THEN <<LogEntry("Data is an object with keys", file.name, 0,
                            objectKeys(data))>>
            ELSE <<>>
    IN  IF ~readable(data)
        \* typeof null === 'object': Object.keys(null) throws
        THEN Iteration(TRUE, TypeError, <<>>, <<parsedLog>>)
        ELSE IF detect(data) \in {"array", "semanticSegments"}
        THEN IF convertNewToOldThrows(data)
             THEN Iteration(TRUE, TypeError, <<>>, <<parsedLog>> \o shapeLog)
             ELSE Iteration(FALSE, TypeError,
                            convertNewToOld(data, file.name).timelineObjects,
                            <<parsedLog>> \o shapeLog
                                \o convertNewToOld(data, file.name).logs)
        ELSE IF detect(data) = "timelineObjects"
        THEN LET found == get(data, "timelineObjects")
                 legacyLogs ==
                     <<parsedLog>> \o shapeLog \o
                     <<LogEntry("Detected old format", file.name, 0, <<>>),
                       LogEntry("Found timeline objects", file.name,
                                lengthOf(found).n, <<>>)>>
             IN  IF spreadThrows(found)
                 THEN Iteration(TRUE, TypeError, <<>>, legacyLogs)
                 ELSE Iteration(FALSE, TypeError, spread(found), legacyLogs)
        ELSE Iteration(TRUE,
                       ErrorMessage("unrecognized format", <<file.name>>,
                                    Some(objectKeys(data))),
                       <<>>,
                       <<parsedLog>> \o shapeLog \o
                       <<LogEntry("ERROR: unrecognized format", file.name, 0,
                                  objectKeys(data))>>)

\* the objects of cleaned, as processFiles holds them
rawOf(cleaned, combined) == [k \in 1..Len(cleaned) |-> combined[cleaned[k].ref]]

\* convertToCSV or convertToKML throws on what cleanData returned
serializersThrow(combined, random) ==
    LET cleaned == cleanData(asTimelineObjects(combined), random).cleaned
    IN  \E k \in 1..Len(cleaned) : serializeThrows(combined[cleaned[k].ref])

\* the object handed to setResults by a run that read files: makeResults on
\* the records, the JSON text of the objects themselves, and the logs
resultsOf(combined, logs, random) ==
    LET objs == asTimelineObjects(combined)
        r == makeResults(objs, random)
    IN  [oldFormatJson |-> jsonDocument(rawOf(cleanData(objs, random).cleaned,
                                              combined)),
         csv |-> r.csv,
         kml |-> r.kml,
         visitCount |-> r.visitCount,
         activityCount |-> r.activityCount,
         totalCount |-> r.totalCount,
         originalCount |-> r.originalCount,
         cleaningStats |-> r.cleaningStats,
         processingLogs |-> logs]

-----------------------------------------------------------------------------
(* The handlers of the component and the steps of a processFiles call.  The   *)
(* call is suspended at `await file.text()` once per file; what runs between  *)
(* two suspensions is one step.  processRun holds the locals of the call      *)
(* (files: the list it was started with; next: the file awaited; combined:    *)
(* combinedTimelineObjects; logs: allLogs) and, for the claims, which files   *)
(* were read, how the call ended, where it threw and how often it called      *)
(* setError with a message.                                                   *)

\* the options are read by the call from the render it was started in; a
\* checkbox changed during the call reaches the next call only, so the
\* checkboxes are modelled as changed between calls
SetRemoveActivities ==
    /\ ~processing
    /\ removeActivities' = ~removeActivities
    /\ UNCHANGED <<timelineObjects, removeDuplicates, splitFiles, cleanResult,
                   againResult, chunkSize, chunks, kmlFile, results>>
    /\ UNCHANGED uiVars

SetRemoveDuplicates ==
    /\ ~processing
    /\ removeDuplicates' = ~removeDuplicates
    /\ UNCHANGED <<timelineObjects, removeActivities, splitFiles, cleanResult,
                   againResult, chunkSize, chunks, kmlFile, results>>
    /\ UNCHANGED uiVars

\* handleFileUpload with the files uploaded
HandleFileUpload(uploaded) ==
    /\ files' = files \o uploaded
    /\ error' = Null
    /\ results' = Null
    /\ UNCHANGED <<timelineObjects, removeActivities, removeDuplicates, splitFiles,
                   cleanResult, againResult, chunkSize, chunks, kmlFile,
                   processing, processRun, downloaded>>

\* clearFiles; its button is rendered while files.length > 0
ClearFiles ==
    /\ files # <<>>
    /\ files' = <<>>
    /\ error' = Null
    /\ results' = Null
    /\ UNCHANGED <<timelineObjects, removeActivities, removeDuplicates, splitFiles,
                   cleanResult, againResult, chunkSize, chunks, kmlFile,
                   processing, processRun, downloaded>>

\* processFiles up to the first `await file.text()`; its button is disabled
\* while processing or with no file, so `files.length === 0` is never met
ProcessFilesStart ==
    /\ ~processing
    /\ files # <<>>
    /\ processing' = TRUE
    /\ error' = Null
    /\ processRun' =
           Some([files |-> files, next |-> 1, combined |-> <<>>,
                 logs |-> <<LogEntry("Processing Started", "", 0, <<>>),
                            LogEntry("Total files to process", "", Len(files), <<>>)>>,
                 read |-> <<>>, outcome |-> "running", threwIn |-> "",
                 errors |-> 0])
    /\ UNCHANGED <<timelineObjects, removeActivities, removeDuplicates, splitFiles,
                   cleanResult, againResult, chunkSize, chunks, kmlFile, results,
                   files, downloaded>>

\* catch (err) { setError(...) } finally { setProcessing(false) }
RunFails(r, message, place) ==
    /\ error' = Some(message)
    /\ processing' = FALSE
    /\ processRun' = Some([r EXCEPT !.outcome = "failed", !.threwIn = place,
                                    !.errors = @ + 1])
    /\ UNCHANGED results

\* setResults({...}) and finally { setProcessing(false) }
RunSucceeds(r, random) ==
    /\ results' = Some(resultsOf(r.combined, r.logs, random))
    /\ processing' = FALSE
    /\ processRun' = Some([r EXCEPT !.outcome = "succeeded"])
    /\ UNCHANGED error

\* processFiles from the point where file.text() resolves: the rest of the
\* loop body for that file, then either the next `await file.text()`, or,
\* after the last file, cleanData, the serializers and setResults
ProcessFilesResume ==
    /\ processing
    /\ processRun # Null
    /\ processRun[1].outcome = "running"
    /\ \E r \in {processRun[1]} :
       \E file \in {r.files[r.next]} :
       \E it \in {processFile(file)} :
       \E after \in {[r EXCEPT !.read = Append(@, r.next),
                               !.combined = combine(@, it.objects),
                               !.logs = @ \o <<LogEntry("Processing file", file.name,
                                                        0, <<>>)>> \o it.logs]} :
           IF it.failed
           THEN RunFails(after, it.message, "file")
           ELSE IF r.next < Len(r.files)
           THEN /\ processRun' = Some([after EXCEPT !.next = @ + 1])
                /\ UNCHANGED <<results, error, processing>>
           ELSE IF cleanDataThrows(after.combined, removeActivities, removeDuplicates)
           THEN RunFails(after, TypeError, "cleanData")
           ELSE \E random \in RandomDraws(randomCalls(asTimelineObjects(after.combined))) :
                    IF serializersThrow(after.combined, random)
                    THEN RunFails(after, TypeError, "serializer")
                    ELSE RunSucceeds(after, random)
    /\ UNCHANGED <<timelineObjects, removeActivities, removeDuplicates, splitFiles,
                   cleanResult, againResult, chunkSize, chunks, kmlFile, files,
                   downloaded>>

\* downloadFile(results.oldFormatJson, 'timeline_converted.json', ...)
DownloadJson ==
    /\ results # Null
    /\ downloaded = Null
    /\ downloaded' = results
    /\ UNCHANGED <<timelineObjects, removeActivities, removeDuplicates, splitFiles,
                   cleanResult, againResult, chunkSize, chunks, kmlFile, results,
                   files, processing, error, processRun>>

\* the file the download wrote
downloadedFile ==
    File("timeline_converted.json", Some(downloaded[1].oldFormatJson))

-----------------------------------------------------------------------------
(* Input documents *)

\* most files selected at once
MaxFiles == 2
\* most segments of a dialect-A or dialect-B document
MaxSegments == 2
\* most records of a legacy document
MaxRecords == 2

\* "geo:1,7", "2°, 7°" and a string that is no coordinate
GeoString == JStr(<<"g", "e", "o", ":", "1", ",", "7">>)
DegreeString == JStr(<<"2", "°", ",", " ", "7", "°">>)
NoCoordinateString == JStr(<<"x">>)

T0 == JStr(<<"t", "0">>)
T1 == JStr(<<"t", "1">>)

\* topCandidate of a visit: a place with id, nested coordinates and address;
\* the same id with the coordinates as a string; nothing known; coordinates
\* that do not parse; coordinates that are no string
TopCandidates ==
    { JObj(<<"placeId", "placeLocation">>,
           <<JStr(<<"a">>),
             JObj(<<"latLng", "name", "address">>,
                  <<DegreeString, JStr(<<"n">>), JStr(<<"x">>)>>)>>),
      JObj(<<"placeId", "placeLocation">>, <<JStr(<<"a">>), GeoString>>),
      JObj(<<>>, <<>>),
      JObj(<<"placeLocation">>, <<JObj(<<"latLng">>, <<NoCoordinateString>>)>>),
      JObj(<<"placeLocation">>, <<JObj(<<"latLng">>, <<JNum(5)>>)>>) }

VisitSegments ==
    { JObj(<<"visit", "startTime", "endTime">>,
           <<JObj(<<"topCandidate", "probability">>, <<tc, JNum(1)>>), T0, T1>>) :
        tc \in TopCandidates }

ActivitySegment ==
    JObj(<<"activity", "startTimestamp", "endTimestamp">>,
         <<JObj(<<"start", "end", "distanceMeters", "topCandidate">>,
                <<JObj(<<"latLng">>, <<DegreeString>>), GeoString, JStr(<<"5">>),
                  JObj(<<"type", "probability">>, <<JStr(<<"W">>), JNum(1)>>)>>),
           T0, T1>>)

\* timelinePath with no point, with one point, with a null in place of a point
PathSegments ==
    { JObj(<<"timelinePath", "startTime", "endTime">>, <<JArr(points), T0, T1>>) :
        points \in { <<>>, <<JObj(<<"point">>, <<GeoString>>)>>, <<JNull>> } }

\* a segment of a shape not known, a null, and a visit that is null
OtherSegments ==
    { JObj(<<"timelineMemory", "startTime">>, <<JObj(<<>>, <<>>), T0>>),
      JNull,
      JObj(<<"visit", "startTime">>, <<JNull, T0>>) }

Segments == VisitSegments \cup {ActivitySegment} \cup PathSegments \cup OtherSegments

\* a dialect-A document (array) or a dialect-B document (semanticSegments)
SegmentDocument(dialect, segments) ==
    IF dialect = "array" THEN JArr(segments)
    ELSE JObj(<<"semanticSegments">>, <<JArr(segments)>>)

LegacyDuration == JObj(<<"startTimestamp", "endTimestamp">>, <<T0, T1>>)

LegacyVisit(location) ==
    JObj(<<"placeVisit">>,
         <<JObj(<<"location", "duration">>, <<location, LegacyDuration>>)>>)

LegacyLocation(placeId, address) ==
    JObj(<<"latitudeE7", "longitudeE7", "placeId", "address", "name">>,
         <<JNum(1), JNum(7), placeId, address, JStr(<<"n">>)>>)

LegacyActivity ==
    JObj(<<"activitySegment">>,
         <<JObj(<<"startLocation", "endLocation", "duration">>,
                <<JObj(<<"latitudeE7", "longitudeE7">>, <<JNum(1), JNum(7)>>),
                  JObj(<<"latitudeE7", "longitudeE7">>, <<JNum(2), JNum(7)>>),
                  LegacyDuration>>)>>)

\* the records of a legacy document: a visit and an activity as the interface
\* describes them; a visit whose placeId, a visit whose address is a number;
\* a visit without coordinates and placeId; a placeVisit without location;
\* null; an object with neither branch; an object with both
LegacyRecords ==
    { LegacyVisit(LegacyLocation(JStr(<<"a">>), JStr(<<"x">>))),
      LegacyActivity,
      LegacyVisit(LegacyLocation(JNum(5), JStr(<<"x">>))),
      LegacyVisit(LegacyLocation(JStr(<<"a">>), JNum(5))),
      LegacyVisit(JObj(<<"name">>, <<JStr(<<"n">>)>>)),
      JObj(<<"placeVisit">>, <<JObj(<<"duration">>, <<LegacyDuration>>)>>),
      JNull,
      JObj(<<>>, <<>>),
      JObj(<<"placeVisit", "activitySegment">>,
           <<get(LegacyVisit(LegacyLocation(JStr(<<"b">>), JStr(<<>>))), "placeVisit"),
             get(LegacyActivity, "activitySegment")>>) }

LegacyDocument(records) == JObj(<<"timelineObjects">>, <<JArr(records)>>)

\* the values of a semanticSegments or timelineObjects key in the documents
\* format detection is tried on (Null: the key is absent)
KeyValues(element) ==
    { Null, Some(JArr(<<>>)), Some(JArr(<<element>>)), Some(JNull), Some(JNum(0)),
      Some(JStr(<<>>)), Some(JNum(5)), Some(JStr(<<"a", "b">>)) }

\* an object with the keys given (a Null value: without that key)
ObjectOf(segmentsValue, objectsValue, otherValue) ==
    JObj((IF segmentsValue = Null THEN <<>> ELSE <<"semanticSegments">>)
            \o (IF objectsValue = Null THEN <<>> ELSE <<"timelineObjects">>)
            \o (IF otherValue = Null THEN <<>> ELSE <<"other">>),
         segmentsValue \o objectsValue \o otherValue)

\* the parsed documents format detection is tried on: arrays, objects with
\* every combination of the keys and their values, and the other JSON values
DetectionDocuments ==
    { JArr(<<>>), JArr(<<ActivitySegment>>), JNull, JNum(0), JNum(5), JStr(<<>>),
      JStr(<<"a", "b">>), JBool(TRUE), JBool(FALSE) }
    \cup
    { ObjectOf(ss, tl, other) :
        ss \in KeyValues(ActivitySegment),
        tl \in KeyValues(LegacyActivity),
        other \in { Null, Some(JNum(1)) } }

-----------------------------------------------------------------------------
(* Spec: the component from its construction on.  The user selects files out *)
(* of FileSystem, clears the list, changes the cleaning options and starts   *)
(* processFiles; handleFileUpload and clearFiles also happen while a call is *)
(* suspended at a file read.                                                 *)

\* the files the user can select: a dialect-A file; a file that is no JSON; a
\* legacy file with a numeric placeId; a file of unknown format; a file
\* holding null
FileSystem ==
    { File("ios.json", Some(JArr(<<ActivitySegment>>))),
      File("broken.json", Null),
      File("old.json",
           Some(LegacyDocument(<<LegacyVisit(LegacyLocation(JNum(5), JStr(<<"x">>)))>>))),
      File("other.json", Some(JObj(<<"other">>, <<JNum(1)>>))),
      File("null.json", Some(JNull)) }

Init ==
    /\ NoFiles
    /\ removeActivities = TRUE
    /\ removeDuplicates = TRUE
    /\ splitFiles = TRUE
    /\ results = Null
    /\ timelineObjects = <<>>
    /\ cleanResult = Null
    /\ againResult = Null
    /\ chunkSize = ChunkSize
    /\ chunks = Null
    /\ kmlFile = Null

\* the user selects one more file
SelectFile ==
    /\ Len(files) < MaxFiles
    /\ \E file \in FileSystem : HandleFileUpload(<<file>>)

Next ==
    \/ SelectFile
    \/ ClearFiles
    \/ SetRemoveActivities
    \/ SetRemoveDuplicates
    \/ ProcessFilesStart
    \/ ProcessFilesResume

Spec == Init /\ [][Next]_vars

-----------------------------------------------------------------------------
(* SpecDetect: processFiles on one file, for every document of               *)
(* DetectionDocuments and for a file that is no JSON                         *)

InitDetect ==
    /\ \E parsed \in {Null} \cup { Some(d) : d \in DetectionDocuments } :
           files = <<File("timeline.json", parsed)>>
    /\ processing = FALSE
    /\ error = Null
    /\ processRun = Null
    /\ downloaded = Null
    /\ removeActivities \in BOOLEAN
    /\ removeDuplicates \in BOOLEAN
    /\ splitFiles = TRUE
    /\ results = Null
    /\ timelineObjects = <<>>
    /\ cleanResult = Null
    /\ againResult = Null
    /\ chunkSize = ChunkSize
    /\ chunks = Null
    /\ kmlFile = Null

NextDetect == ProcessFilesStart \/ ProcessFilesResume

SpecDetect == InitDetect /\ [][NextDetect]_vars

-----------------------------------------------------------------------------
(* SpecConvert: processFiles on one dialect-A or dialect-B file, for every   *)
(* segment list up to MaxSegments; then the JSON output is saved, selected   *)
(* in place of the file, and processed as a legacy file                      *)

InitConvert ==
    /\ \E dialect \in {"array", "semanticSegments"} :
       \E n \in 0..MaxSegments : \E segments \in [1..n -> Segments] :
           files = <<File("timeline.json", Some(SegmentDocument(dialect, segments)))>>
    /\ processing = FALSE
    /\ error = Null
    /\ processRun = Null
    /\ downloaded = Null
    /\ removeActivities \in BOOLEAN
    /\ removeDuplicates \in BOOLEAN
    /\ splitFiles = TRUE
    /\ results = Null
    /\ timelineObjects = <<>>
    /\ cleanResult = Null
    /\ againResult = Null
    /\ chunkSize = ChunkSize
    /\ chunks = Null
    /\ kmlFile = Null

\* the user selects the saved JSON output, the list being empty
SelectDownloaded ==
    /\ downloaded # Null
    /\ files = <<>>
    /\ HandleFileUpload(<<downloadedFile>>)

NextConvert ==
    \/ ProcessFilesStart
    \/ ProcessFilesResume
    \/ DownloadJson
    \/ ClearFiles
    \/ SelectDownloaded

SpecConvert == InitConvert /\ [][NextConvert]_vars

-----------------------------------------------------------------------------
(* SpecLegacy: processFiles on one legacy file, for every record list up to  *)
(* MaxRecords out of LegacyRecords                                           *)

InitLegacy ==
    /\ \E n \in 0..MaxRecords : \E records \in [1..n -> LegacyRecords] :
           files = <<File("Records.json", Some(LegacyDocument(records)))>>
    /\ processing = FALSE
    /\ error = Null
    /\ processRun = Null
    /\ downloaded = Null
    /\ removeActivities \in BOOLEAN
    /\ removeDuplicates \in BOOLEAN
    /\ splitFiles = TRUE
    /\ results = Null
    /\ timelineObjects = <<>>
    /\ cleanResult = Null
    /\ againResult = Null
    /\ chunkSize = ChunkSize
    /\ chunks = Null
    /\ kmlFile = Null

NextLegacy == ProcessFilesStart \/ ProcessFilesResume

SpecLegacy == InitLegacy /\ [][NextLegacy]_vars

-----------------------------------------------------------------------------
(* Vocabulary of the claims about processFiles *)

\* the processFiles call under way or, when none is, the one that ended last
LastRun == processRun[1]

RunEnded == processRun # Null /\ LastRun.outcome # "running"
RunFailed == processRun # Null /\ LastRun.outcome = "failed"
RunSucceeded == processRun # Null /\ LastRun.outcome = "succeeded"

\* the object handed to setResults by the run that succeeded last
Shown == results[1]

-----------------------------------------------------------------------------
(* C11 *)

\* C11 (as claimed): whenever the most recent processFiles run ended in a fatal
\* error, results is null, in every reachable state of the component, also
\* when an earlier run had succeeded.
C11_NoResultsAfterFailedRun ==
    RunFailed => results = Null

-----------------------------------------------------------------------------
(* C12 *)

\* the dialect the specification's Format Detector names for a parsed document
Dialect(v) ==
    IF isArray(v) THEN "A"
    ELSE IF hasKey(v, "semanticSegments") THEN "B"
    ELSE IF hasKey(v, "timelineObjects") THEN "legacy"
    ELSE "none"

\* the file does not parse or has an unrecognized format
Fatal(file) == file.parsed = Null \/ Dialect(file.parsed[1]) = "none"

\* the position of the first such file in a list (0: there is none)
FirstFatal(list) ==
    IF \E k \in 1..Len(list) : Fatal(list[k])
    THEN Min({ k \in 1..Len(list) : Fatal(list[k]) })
    ELSE 0

-----------------------------------------------------------------------------
(* C13 *)

\* the run has an entry of this kind in allLogs
Logged(r, kind) == \E k \in 1..Len(r.logs) : r.logs[k].kind = kind

\* the dialect processFiles took the file of a one-file run for
DetectedAs(r) ==
    IF Logged(r, "Detected iOS/Apple format") THEN "A"
    ELSE IF Logged(r, "Detected Android format") THEN "B"
    ELSE IF Logged(r, "Detected old format") THEN "legacy"
    ELSE "none"

\* the run has read its only file, which parsed, and this is the document
OneFileRead == processRun # Null /\ Len(LastRun.files) = 1 /\ LastRun.read = <<1>>
               /\ LastRun.files[1].parsed # Null

Document == LastRun.files[1].parsed[1]

\* C13 (as claimed): an array is taken for dialect A; else an object with a
\* semanticSegments key for dialect B; else an object with a timelineObjects
\* key for the legacy dialect; else classification fails; the decision depends
\* on the presence of the key, whatever its value, in that priority order.
C13_DetectionByKeyPresence ==
    OneFileRead =>
        /\ Dialect(Document) = "A" => DetectedAs(LastRun) = "A"
        /\ Dialect(Document) = "B" =>
               \/ DetectedAs(LastRun) = "B"
               \/ LastRun.threwIn = "file" /\ error = Some(TypeError)
        /\ Dialect(Document) = "legacy" => DetectedAs(LastRun) = "legacy"
        /\ Dialect(Document) = "none" =>
               DetectedAs(LastRun) = "none" /\ LastRun.threwIn = "file"

-----------------------------------------------------------------------------
(* C14 *)

\* C14 (as claimed): for every parsed document that is neither an array nor an
\* object with a semanticSegments or timelineObjects key, the run fails with
\* an unrecognized-format error whose message names the file and lists the
\* top-level keys of the document.
C14_UnrecognizedFormatReported ==
    (OneFileRead /\ Dialect(Document) = "none") =>
        /\ RunFailed
        /\ LastRun.errors = 1
        /\ error # Null
        /\ error[1].kind = "unrecognized format"
        /\ error[1].names = <<LastRun.files[1].name>>
        /\ error[1].keys # Null
        /\ Document.t = "object" => error[1].keys = Some(Document.keys)

-----------------------------------------------------------------------------
(* C15 *)

\* the run has read its only file, a dialect-A or dialect-B document
SegmentsRead == OneFileRead /\ Dialect(Document) \in {"A", "B"}

\* the segment list of that document
SegmentList == segmentsOf(Document).items

\* the positions of the segments whose conversion throws
Throwing == { i \in 1..Len(SegmentList) : segmentThrows(SegmentList[i]) }

\* the document without the segments at the positions in S
Without(S) ==
    LET rest == SelectSeq([i \in 1..Len(SegmentList) |-> i], LAMBDA i : i \notin S)
    IN  SegmentDocument(IF isArray(Document) THEN "array" ELSE "semanticSegments",
                        [k \in 1..Len(rest) |-> SegmentList[rest[k]]])

\* the entries of the log that report a segment error
SegmentErrors(logs) ==
    SelectSeq(logs, LAMBDA entry : entry.kind = "ERROR processing segment")

\* C15: a segment whose conversion throws leaves no record, gets exactly one
\* entry in the log (with its index), does not make the run fail, and the
\* records of the file are those of the file without that segment, in the
\* same order.
C15_FailingSegmentSkipped ==
    SegmentsRead =>
        /\ RunSucceeded
        /\ LastRun.combined =
               convertNewToOld(Without(Throwing), LastRun.files[1].name).timelineObjects
        /\ Len(LastRun.combined) <= Len(SegmentList) - Cardinality(Throwing)
        /\ \A k \in 1..Len(LastRun.combined) : LastRun.combined[k] # JObj(<<>>, <<>>)
        /\ Len(SegmentErrors(LastRun.logs)) = Cardinality(Throwing)
        /\ \A i \in Throwing :
               Cardinality({ k \in 1..Len(LastRun.logs) :
                               LastRun.logs[k] =
                                   LogEntry("ERROR processing segment",
                                            LastRun.files[1].name, i - 1, <<>>) }) = 1

\* the first of two segments threw and the second one was converted
C15_Witness ==
    /\ SegmentsRead
    /\ RunSucceeded
    /\ Len(SegmentList) = 2
    /\ Throwing = {1}
    /\ truthy(get(SegmentList[1], "visit"))
    /\ Len(LastRun.combined) = 1
    /\ Len(SegmentErrors(LastRun.logs)) = 1

-----------------------------------------------------------------------------
(* C16 *)

ShapeMarkers == {"visit", "activity", "timelinePath"}

\* a segment of unrecognized shape: an object with none of the three markers
UnrecognizedShape(segment) ==
    segment.t = "object" /\ \A m \in ShapeMarkers : ~hasKey(segment, m)

\* a segment that is a timelinePath with zero points
EmptyPath(segment) ==
    /\ hasKey(segment, "timelinePath")
    /\ ~hasKey(segment, "visit") /\ ~hasKey(segment, "activity")
    /\ get(segment, "timelinePath") = JArr(<<>>)

\* a well-formed segment of another kind: a visit or an activity that is an
\* object, or a path with points, whose coordinates are strings
WellFormed(segment) ==
    /\ segment.t = "object"
    /\ \/ get(segment, "visit").t = "object"
       \/ get(segment, "activity").t = "object"
       \/ get(segment, "timelinePath").t = "array" /\ ~EmptyPath(segment)
    /\ ~segmentThrows(segment)

Count(P(_)) == Cardinality({ i \in 1..Len(SegmentList) : P(SegmentList[i]) })

\* C16: a segment with none of visit, activity and timelinePath, and a
\* timelinePath with zero points, yield no record, no log entry and no failure;
\* a file of only such segments gives originalCount = 0; every other
\* well-formed segment yields exactly one record, and the records of a file
\* are never more than its segments.
C16_SkippedShapes ==
    SegmentsRead =>
        /\ RunSucceeded
        /\ Len(LastRun.combined) <= Len(SegmentList)
        /\ Len(LastRun.combined) >= Count(WellFormed)
        /\ Len(LastRun.combined) <=
               Len(SegmentList) - Count(UnrecognizedShape) - Count(EmptyPath)
        /\ \A i \in 1..Len(SegmentList) :
               (UnrecognizedShape(SegmentList[i]) \/ EmptyPath(SegmentList[i])) =>
                   \A k \in 1..Len(LastRun.logs) :
                       ~(LastRun.logs[k].kind = "ERROR processing segment"
                         /\ LastRun.logs[k].n = i - 1)
        /\ (\A i \in 1..Len(SegmentList) :
               UnrecognizedShape(SegmentList[i]) \/ EmptyPath(SegmentList[i])) =>
               /\ LastRun.combined = <<>>
               /\ results # Null => Shown.originalCount = 0

\* a file of one segment of unknown shape and one path without points gave
\* results with originalCount = 0
C16_Witness ==
    /\ SegmentsRead
    /\ RunSucceeded
    /\ Len(SegmentList) = 2
    /\ UnrecognizedShape(SegmentList[1])
    /\ EmptyPath(SegmentList[2])
    /\ results # Null
    /\ Shown.originalCount = 0

-----------------------------------------------------------------------------
(* C17 *)

\* C17 (as claimed): cleanData returns normally for every record sequence,
\* also for legacy records whose placeVisit has no location, whose placeId or
\* address is not a string, that are null or that have neither branch: no run
\* ends in an exception thrown by cleanData.
C17_CleanDataNeverThrows ==
    processRun # Null => LastRun.threwIn # "cleanData"

-----------------------------------------------------------------------------
(* C18 *)

\* a coordinate that was missing or unparsable in the source: 0, NaN or
\* undefined in the record (null once NaN went through JSON)
UnusableCoordinate(v) == v \in {JNum(0), JNaN, JUndefined, JNull}

\* a PlaceVisit with neither a usable placeId nor usable coordinates
Unkeyed(raw) ==
    /\ truthy(rawVisit(raw))
    /\ readable(rawLocation(raw))
    /\ trim(textOf(get(rawLocation(raw), "placeId"))) = <<>>
    /\ UnusableCoordinate(get(rawLocation(raw), "latitudeE7"))
    /\ UnusableCoordinate(get(rawLocation(raw), "longitudeE7"))

\* the records of the JSON output shown
OutputRecords == get(Shown.oldFormatJson, "timelineObjects").items

\* C18 (as claimed): deduplication treats a PlaceVisit with neither a usable
\* placeId nor usable coordinates as unkeyed: every such record of the input
\* is in the output, none is merged with another one.
C18_UnkeyedVisitsKept ==
    (SegmentsRead /\ RunSucceeded /\ results # Null) =>
        Len(SelectSeq(OutputRecords, Unkeyed)) = Len(SelectSeq(LastRun.combined, Unkeyed))

-----------------------------------------------------------------------------
(* C19 *)

\* the run that ended last read the file the download wrote
ReadBack ==
    /\ downloaded # Null
    /\ RunEnded
    /\ LastRun.files = <<downloadedFile>>

\* C19: with both cleaning options disabled, the JSON output of a dialect-A
\* or dialect-B file, fed back as a file, is read as a legacy file and gives
\* as many records as the first file did, also when that number is 0.
C19_RoundTripKeepsCount ==
    (ReadBack /\ ~removeActivities /\ ~removeDuplicates) =>
        /\ RunSucceeded
        /\ DetectedAs(LastRun) = "legacy"
        /\ Len(LastRun.combined) = downloaded[1].originalCount
        /\ results # Null =>
               /\ Shown.originalCount = downloaded[1].originalCount
               /\ Shown.totalCount = downloaded[1].originalCount

\* a file of two records went round
C19_Witness ==
    /\ ReadBack
    /\ ~removeActivities /\ ~removeDuplicates
    /\ results # Null
    /\ downloaded[1].originalCount = 2
    /\ Shown.originalCount = 2

\* a file of no record went round
C19_WitnessEmpty ==
    /\ ReadBack
    /\ ~removeActivities /\ ~removeDuplicates
    /\ results # Null
    /\ downloaded[1].originalCount = 0
    /\ Shown.originalCount = 0

-----------------------------------------------------------------------------
(* C20 *)

\* the record has exactly one of placeVisit / activitySegment
OneBranch(raw) ==
    /\ readable(raw)
    /\ truthy(rawVisit(raw)) # truthy(rawActivity(raw))

\* C20 (as claimed): every record of the combined set and of the cleaned
\* output has exactly one of placeVisit / activitySegment, legacy records
\* included, and visitCount + activityCount = totalCount in every result.
C20_ExactlyOneBranch ==
    (RunSucceeded /\ results # Null) =>
        /\ \A k \in 1..Len(LastRun.combined) : OneBranch(LastRun.combined[k])
        /\ \A k \in 1..Len(OutputRecords) : OneBranch(OutputRecords[k])
        /\ Shown.visitCount + Shown.activityCount = Shown.totalCount

-----------------------------------------------------------------------------
(* C21 *)

\* the rows of the k-th CSV shown, the header row left out
CsvBody(k) == Tail(Shown.csv[k])

\* C21 (as claimed): convertToCSV on N records returns N + 1 rows, the header
\* and then one row per record in record order, for every record sequence
\* the pipeline can hold: here the records of a legacy file, which are fewer
\* than 2,000 and so are rendered into one CSV.
C21_CsvRowPerRecord ==
    (RunSucceeded /\ results # Null) =>
        /\ Len(Shown.csv) = 1
        /\ Head(Shown.csv[1]) = csvHeader
        /\ Len(Shown.csv[1]) = Len(OutputRecords) + 1
        /\ \A k \in 1..Len(CsvBody(1)) :
               k <= Len(OutputRecords) =>
                   (CsvBody(1)[k][1] = "Visit") = truthy(rawVisit(OutputRecords[k]))

-----------------------------------------------------------------------------
(* C22 *)

\* the records of the JSON output of the run
Output == Result.oldFormatJson.timelineObjects

\* the records rendered into the k-th KML: all of them, or the k-th run of
\* 2,000 when the output was split
Slice(k) ==
    IF Len(Result.kml) = 1 THEN Output
    ELSE SubSeq(Output, 2000 * (k - 1) + 1,
                IF 2000 * k < Len(Output) THEN 2000 * k ELSE Len(Output))

\* the PlaceVisits of a record sequence, in order
VisitsOf(records) == SelectSeq(records, LAMBDA o : o.placeVisit # Null)

RECURSIVE Sum(_)
Sum(ns) == IF ns = <<>> THEN 0 ELSE Head(ns) + Sum(Tail(ns))

\* C22: every KML holds exactly one Placemark per PlaceVisit of the records
\* it was rendered from, in their order (each at longitude, latitude, 0 of
\* its visit and with its address), and none for an ActivitySegment; over
\* all KMLs of a run the Placemarks total the surviving PlaceVisits.
C22_PlacemarkPerVisit ==
    results # Null =>
        /\ \A k \in 1..Len(Result.kml) :
               LET visits == VisitsOf(Slice(k))
                   marks == Result.kml[k].Document
               IN  /\ Len(marks) = Len(visits)
                   /\ \A j \in 1..Len(marks) :
                          LET loc == visits[j].placeVisit[1].location
                          IN  /\ marks[j].coordinates =
                                     << [num |-> loc.longitudeE7, den |-> 10000000],
                                        [num |-> loc.latitudeE7, den |-> 10000000], 0 >>
                              /\ marks[j].description = loc.address
        /\ Sum([k \in 1..Len(Result.kml) |-> Len(Result.kml[k].Document)])
               = Result.visitCount
        /\ Result.visitCount = Len(VisitsOf(Output))

\* a run split into three KMLs whose records are visits and activities
C22_Witness ==
    /\ results # Null
    /\ Len(Result.kml) = 3
    /\ Result.totalCount = 4500
    /\ Result.visitCount = 2250
    /\ Result.activityCount = 2250
    /\ Len(Result.kml[3].Document) = 250

-----------------------------------------------------------------------------
(* convertToKML as text.  The text is a sequence whose elements are the     *)
(* characters of the Placemarks; the head and the foot of the document,     *)
(* which hold no input, are one element each, and so is a number.           *)

\* case '<': return '&lt;' ... of escapeXml
escapeChar(c) ==
    CASE c = "<" -> <<"&", "l", "t", ";">>
      [] c = ">" -> <<"&", "g", "t", ";">>
      [] c = "&" -> <<"&", "a", "m", "p", ";">>
      [] c = "\"" -> <<"&", "q", "u", "o", "t", ";">>
      [] c = "'" -> <<"&", "a", "p", "o", "s", ";">>
      [] OTHER -> <<c>>

\* unsafe.replace(/[<>&"']/g, ...)
RECURSIVE escapeXml(_)
escapeXml(unsafe) ==
    IF unsafe = <<>> THEN <<>> ELSE escapeChar(Head(unsafe)) \o escapeXml(Tail(unsafe))

\* the template literal of a Placemark, cut at its ${...} places: up to the
\* name, up to the address, the two labels, up to the longitude, and the rest
\* after the latitude
PlacemarkTemplate ==
    [ open |->
          <<" ", " ", " ", " ", "<", "P", "l", "a", "c", "e", "m", "a", "r",
            "k", ">", "\n", " ", " ", " ", " ", " ", " ", "<", "n", "a", "m",
            "e", ">">>,
      nameClose |->
          <<"<", "/", "n", "a", "m", "e", ">", "\n", " ", " ", " ", " ", " ",
            " ", "<", "d", "e", "s", "c", "r", "i", "p", "t", "i", "o", "n",
            ">", "<", "!", "[", "C", "D", "A", "T", "A", "[">>,
      startLabel |->
          <<"\n", "S", "t", "a", "r", "t", ":", " ">>,
      endLabel |->
          <<"\n", "E", "n", "d", ":", " ">>,
      descriptionClose |->
          <<"]", "]", ">", "<", "/", "d", "e", "s", "c", "r", "i", "p", "t",
            "i", "o", "n", ">", "\n", " ", " ", " ", " ", " ", " ", "<", "s",
            "t", "y", "l", "e", "U", "r", "l", ">", "#", "v", "i", "s", "i",
            "t", "<", "/", "s", "t", "y", "l", "e", "U", "r", "l", ">", "\n",
            " ", " ", " ", " ", " ", " ", "<", "P", "o", "i", "n", "t", ">",
            "\n", " ", " ", " ", " ", " ", " ", " ", " ", "<", "c", "o", "o",
            "r", "d", "i", "n", "a", "t", "e", "s", ">">>,
      close |->
          <<",", "0", "<", "/", "c", "o", "o", "r", "d", "i", "n", "a", "t",
            "e", "s", ">", "\n", " ", " ", " ", " ", " ", " ", "<", "/", "P",
            "o", "i", "n", "t", ">", "\n", " ", " ", " ", " ", "<", "/", "P",
            "l", "a", "c", "e", "m", "a", "r", "k", ">", "\n">> ]

UnknownLocation ==
    <<"U", "n", "k", "n", "o", "w", "n", " ", "L", "o", "c", "a", "t", "i", "o", "n">>

\* `${loc.latitudeE7 / 1e7}`: the digits of a whole number of degrees (any
\* other number is written as its count of 1e-7 degrees)
degreesText(e7) ==
    IF e7.n % E7 = 0
    THEN <<ToString(e7.n \div E7)>>
    ELSE <<ToString(e7.n), "e-7">>

\* the text appended for an object with a placeVisit whose name, address and
\* timestamps are strings
placemarkText(raw) ==
    LET pv == rawVisit(raw)
        loc == get(pv, "location")
        name == escapeXml(orElse(get(loc, "name"), JStr(UnknownLocation)).s)
        address == orElse(get(loc, "address"), JStr(<<>>)).s
    IN  PlacemarkTemplate.open \o name
        \o PlacemarkTemplate.nameClose \o address
        \o PlacemarkTemplate.startLabel \o get(get(pv, "duration"), "startTimestamp").s
        \o PlacemarkTemplate.endLabel \o get(get(pv, "duration"), "endTimestamp").s
        \o PlacemarkTemplate.descriptionClose
        \o degreesText(get(loc, "longitudeE7")) \o <<",">>
        \o degreesText(get(loc, "latitudeE7")) \o PlacemarkTemplate.close

\* data.forEach of convertToKML
RECURSIVE placemarksText(_)
placemarksText(raws) ==
    IF raws = <<>> THEN <<>>
    ELSE (IF truthy(rawVisit(Head(raws))) THEN placemarkText(Head(raws)) ELSE <<>>)
         \o placemarksText(Tail(raws))

\* the text before the first Placemark (the XML declaration, <kml>, <Document>,
\* its name "Timeline Data" and the style "visit") and the text after the last
KmlHead == "<?xml?><kml><Document><name>Timeline Data</name><Style/>"
KmlFoot == "</Document></kml>"

\* convertToKML(data) as text
convertToKMLText(raws) == <<KmlHead>> \o placemarksText(raws) \o <<KmlFoot>>

-----------------------------------------------------------------------------
(* SpecKml: convertToKML applied to one PlaceVisit, alone or after an        *)
(* ActivitySegment, one of whose strings is any text over a small alphabet   *)

\* longest text tried in a field
MaxText == 3

\* a letter, the five characters escapeXml replaces, and the bracket that
\* ends a CDATA section
Alphabet == {"a", "<", ">", "&", "\"", "'", "]"}

KmlFields == {"name", "address", "startTimestamp", "endTimestamp"}

\* the PlaceVisit whose field has the text, the other fields being plain
KmlVisit(field, text) ==
    LET value(f, plain) == JStr(IF f = field THEN text ELSE plain)
    IN  JObj(<<"placeVisit">>,
             <<JObj(<<"location", "duration">>,
                    <<JObj(<<"latitudeE7", "longitudeE7", "name", "address">>,
                           <<JNum(1 * E7), JNum(7 * E7),
                             value("name", <<"n">>), value("address", <<"x">>)>>),
                      JObj(<<"startTimestamp", "endTimestamp">>,
                           <<value("startTimestamp", <<"t", "0">>),
                             value("endTimestamp", <<"t", "1">>)>>)>>)>>)

InitKml ==
    /\ \E field \in KmlFields : \E n \in 0..MaxText : \E text \in [1..n -> Alphabet] :
       \E before \in {<<>>, <<LegacyActivity>>} :
           timelineObjects = before \o <<KmlVisit(field, text)>>
    /\ removeActivities = FALSE
    /\ removeDuplicates = FALSE
    /\ splitFiles = TRUE
    /\ cleanResult = Null
    /\ againResult = Null
    /\ chunkSize = ChunkSize
    /\ chunks = Null
    /\ kmlFile = Null
    /\ results = Null
    /\ NoFiles

\* kmlFiles.push(convertToKML(cleaned))
ConvertToKML ==
    /\ kmlFile = Null
    /\ kmlFile' = Some(convertToKMLText(timelineObjects))
    /\ UNCHANGED <<timelineObjects, removeActivities, removeDuplicates, splitFiles,
                   cleanResult, againResult, chunkSize, chunks, results>>
    /\ UNCHANGED uiVars

NextKml == ConvertToKML

SpecKml == InitKml /\ [][NextKml]_vars

-----------------------------------------------------------------------------
(* C23 *)

\* the text is at position i of the sequence
OccursAt(text, i, whole) ==
    /\ i >= 1 /\ i + Len(text) - 1 <= Len(whole)
    /\ SubSeq(whole, i, i + Len(text) - 1) = text

\* the first position from `from` on at which the text occurs (0: none)
IndexOf(text, from, whole) ==
    IF \E i \in from..Len(whole) : OccursAt(text, i, whole)
    THEN CHOOSE i \in from..Len(whole) :
             /\ OccursAt(text, i, whole)
             /\ \A j \in from..(i - 1) : ~OccursAt(text, j, whole)
    ELSE 0

\* the characters escapeXml is there for
Unsafe == {"<", ">", "&", "\"", "'"}

Entities ==
    { <<"&", "l", "t", ";">>, <<"&", "g", "t", ";">>, <<"&", "a", "m", "p", ";">>,
      <<"&", "q", "u", "o", "t", ";">>, <<"&", "a", "p", "o", "s", ";">> }

\* every unsafe character of the text is written as an entity
Escaped(text) ==
    \A i \in 1..Len(text) :
        text[i] \in Unsafe =>
            /\ text[i] = "&"
            /\ \E e \in Entities : OccursAt(e, i, text)

\* the PlaceVisit the KML was made from, and its strings
KmlVisitOf == rawVisit(timelineObjects[Len(timelineObjects)])
KmlName == get(get(KmlVisitOf, "location"), "name").s
KmlAddress == get(get(KmlVisitOf, "location"), "address").s
KmlStart == get(get(KmlVisitOf, "duration"), "startTimestamp").s
KmlEnd == get(get(KmlVisitOf, "duration"), "endTimestamp").s

\* the document as a reader of XML takes it: the name runs from <name> to
\* the first </name>, the description from <![CDATA[ to the first ]]>
NameFrom == IndexOf(<<"<", "n", "a", "m", "e", ">">>, 1, kmlFile[1]) + 6
NameTo == IndexOf(<<"<", "/", "n", "a", "m", "e", ">">>, NameFrom, kmlFile[1])
NameRead == SubSeq(kmlFile[1], NameFrom, NameTo - 1)
DescriptionFrom == NameTo + Len(PlacemarkTemplate.nameClose)
DescriptionTo == IndexOf(<<"]", "]", ">">>, DescriptionFrom, kmlFile[1])
DescriptionRead == SubSeq(kmlFile[1], DescriptionFrom, DescriptionTo - 1)

\* the name is written escaped, and is the one element the template opens
C23_NameEscaped ==
    kmlFile # Null =>
        /\ NameRead = escapeXml(IF KmlName = <<>> THEN UnknownLocation ELSE KmlName)
        /\ Escaped(NameRead)
        /\ OccursAt(PlacemarkTemplate.nameClose, NameTo, kmlFile[1])

\* no string of the description ends the section it is written in
C23_SectionNotClosed ==
    kmlFile # Null =>
        /\ DescriptionRead =
               KmlAddress \o PlacemarkTemplate.startLabel \o KmlStart
               \o PlacemarkTemplate.endLabel \o KmlEnd
        /\ OccursAt(PlacemarkTemplate.descriptionClose, DescriptionTo, kmlFile[1])

\* C23 (as claimed): in the KML every occurrence of < > & " ' in a
\* placemark's name and in its description (address and timestamps) is
\* escaped, so that no input string closes or opens an element or a section
\* of the document.
C23_KmlTextEscaped ==
    kmlFile # Null =>
        /\ C23_NameEscaped
        /\ Escaped(DescriptionRead)
        /\ C23_SectionNotClosed

-----------------------------------------------------------------------------
(* C24 *)

\* the PlaceVisits of the input, in input order
InputVisits == SelectSeq(timelineObjects, LAMBDA o : o.placeVisit # Null)

\* C24: with removeActivities enabled the output of cleanData holds no
\* record that is not a PlaceVisit, every PlaceVisit of the input passes the
\* step (all of them, in order, are what deduplication starts from or, with
\* deduplication disabled, the output), and removedActivities is the number
\* of input records that are not PlaceVisits; with it disabled
\* removedActivities = 0 and the step drops no record.
C24_ActivityRemoval ==
    cleanResult # Null =>
        LET stats == cleanResult[1].stats
        IN  IF removeActivities
            THEN /\ \A k \in 1..Len(Cleaned) : Cleaned[k].placeVisit # Null
                 /\ stats.removedActivities = Len(timelineObjects) - Len(InputVisits)
                 /\ Len(Cleaned) + stats.removedDuplicates = Len(InputVisits)
                 /\ ~removeDuplicates => Cleaned = InputVisits
            ELSE /\ stats.removedActivities = 0
                 /\ Len(Cleaned) + stats.removedDuplicates = Len(timelineObjects)
                 /\ ~removeDuplicates => Cleaned = timelineObjects

\* the step alone removed one of three records and kept two visits
C24_Witness ==
    /\ cleanResult # Null
    /\ removeActivities /\ ~removeDuplicates
    /\ Len(timelineObjects) = 3
    /\ timelineObjects[2].placeVisit = Null
    /\ cleanResult[1].stats.removedActivities = 1
    /\ Cleaned = <<timelineObjects[1], timelineObjects[3]>>

-----------------------------------------------------------------------------
(* C25 *)

\* C25 (as claimed): cleanData is a function of the record sequence and the
\* two options: whatever values Math.random() returns in another run on the
\* same input, that run returns the same records and the same counters.
C25_CleanDataPure ==
    cleanResult # Null =>
        \A random \in RandomDraws(randomCalls(timelineObjects)) :
            cleanData(timelineObjects, random) = cleanResult[1]

-----------------------------------------------------------------------------
(* C27 *)

\* the positions in the input of the records of the output, in output order
InputPositions == [k \in 1..Len(Cleaned) |-> Cleaned[k].ref]

\* C27 (as claimed): every record of cleanData's output is one of the input
\* records, none occurs more often than in the input, the surviving records
\* are in their relative input order, and the input is left unchanged.
C27_FilteredInOrder ==
    cleanResult # Null =>
        /\ \A k \in 1..Len(Cleaned) :
               /\ Cleaned[k].ref \in 1..Len(timelineObjects)
               /\ Cleaned[k] = timelineObjects[Cleaned[k].ref]
        /\ \A j, k \in 1..Len(Cleaned) : j < k => InputPositions[j] # InputPositions[k]
        /\ \A j, k \in 1..Len(Cleaned) : j < k => InputPositions[j] < InputPositions[k]

\* C27 without the order: the output is a selection of the input records
C27_Selection ==
    cleanResult # Null =>
        /\ \A k \in 1..Len(Cleaned) :
               /\ Cleaned[k].ref \in 1..Len(timelineObjects)
               /\ Cleaned[k] = timelineObjects[Cleaned[k].ref]
        /\ \A j, k \in 1..Len(Cleaned) : j < k => InputPositions[j] # InputPositions[k]

-----------------------------------------------------------------------------
(* C29 *)

\* the positions of the PlaceVisits of the output
CleanedVisitIdx == { k \in 1..Len(Cleaned) : Cleaned[k].placeVisit # Null }

-----------------------------------------------------------------------------
(* SpecCombine: processFiles on a list of files of the three dialects, each  *)
(* with records of its own, under every option combination                   *)

\* a visit at a known place, and a path of one point
KnownVisit ==
    JObj(<<"visit", "startTime", "endTime">>,
         <<JObj(<<"topCandidate", "probability">>,
                <<JObj(<<"placeId", "placeLocation">>, <<JStr(<<"a">>), GeoString>>),
                  JNum(1)>>),
           T0, T1>>)

PathOfOne ==
    JObj(<<"timelinePath", "startTime", "endTime">>,
         <<JArr(<<JObj(<<"point">>, <<GeoString>>)>>), T0, T1>>)

\* a dialect-A file of a visit and an activity; a dialect-B file of a path, a
\* segment that throws and a visit; a legacy file of an activity and a visit;
\* a legacy file without records
CombineFiles ==
    { File("ios.json", Some(SegmentDocument("array", <<KnownVisit, ActivitySegment>>))),
      File("android.json",
           Some(SegmentDocument("semanticSegments", <<PathOfOne, JNull, KnownVisit>>))),
      File("Records.json",
           Some(LegacyDocument(<<LegacyActivity,
                                 LegacyVisit(LegacyLocation(JStr(<<"b">>), JStr(<<"x">>)))>>))),
      File("empty.json", Some(LegacyDocument(<<>>))) }

InitCombine ==
    /\ \E n \in 1..MaxFiles : files \in [1..n -> CombineFiles]
    /\ processing = FALSE
    /\ error = Null
    /\ processRun = Null
    /\ downloaded = Null
    /\ removeActivities \in BOOLEAN
    /\ removeDuplicates \in BOOLEAN
    /\ splitFiles = TRUE
    /\ results = Null
    /\ timelineObjects = <<>>
    /\ cleanResult = Null
    /\ againResult = Null
    /\ chunkSize = ChunkSize
    /\ chunks = Null
    /\ kmlFile = Null

NextCombine ==
    \/ ProcessFilesStart
    \/ ProcessFilesResume

SpecCombine == InitCombine /\ [][NextCombine]_vars

-----------------------------------------------------------------------------
(* C26 *)

\* the records of one segment of a file, converted on its own
OfSegment(file, i) ==
    convertNewToOld(SegmentDocument("array", <<segmentsOf(file.parsed[1]).items[i]>>),
                    file.name).timelineObjects

\* the records of a file: those of its segments in segment order, or the
\* elements of timelineObjects in their order
RecordsOf(file) ==
    IF Dialect(file.parsed[1]) \in {"A", "B"}
    THEN Concat([i \in 1..Len(segmentsOf(file.parsed[1]).items) |-> OfSegment(file, i)])
    ELSE get(file.parsed[1], "timelineObjects").items

\* the records of the first n files of the run, file after file
RecordsOfFirst(n) == Concat([i \in 1..n |-> RecordsOf(LastRun.files[i])])

\* C26: the combined record sequence is the concatenation, in file-list
\* order, of each file's records in segment order (legacy files: in the
\* order of timelineObjects); with both cleaning options disabled the
\* cleaned sequence and the JSON output hold exactly that sequence.
C26_ConcatenationInOrder ==
    processRun # Null =>
        /\ LastRun.combined = RecordsOfFirst(Len(LastRun.read))
        /\ (RunSucceeded /\ ~removeActivities /\ ~removeDuplicates) =>
               /\ results # Null
               /\ Shown.oldFormatJson = jsonDocument(RecordsOfFirst(Len(LastRun.files)))
               /\ Shown.totalCount = Len(RecordsOfFirst(Len(LastRun.files)))
               /\ Shown.originalCount = Shown.totalCount

\* the dialect-B file and then the legacy file were read, with both options
\* disabled: path, visit, activity, visit
C26_Witness ==
    /\ RunSucceeded
    /\ ~removeActivities /\ ~removeDuplicates
    /\ Len(LastRun.files) = 2
    /\ LastRun.files[1].name = "android.json"
    /\ LastRun.files[2].name = "Records.json"
    /\ results # Null
    /\ Len(OutputRecords) = 4
    /\ truthy(rawActivity(OutputRecords[1]))
    /\ truthy(rawVisit(OutputRecords[2]))
    /\ OutputRecords[3] = LegacyActivity
    /\ truthy(rawVisit(OutputRecords[4]))

-----------------------------------------------------------------------------
(* C28 *)

\* the value is an integer (a number of the model is one; NaN, undefined
\* and null are not)
IsInteger(v) == v.t = "number" /\ v.n \in Int

\* the coordinate fields of a record the normalizer built
CoordinatesOf(raw) ==
    IF truthy(rawVisit(raw))
    THEN { get(rawLocation(raw), "latitudeE7"), get(rawLocation(raw), "longitudeE7"),
           get(rawVisit(raw), "centerLatE7"), get(rawVisit(raw), "centerLngE7") }
    ELSE { get(get(rawActivity(raw), end), c) :
             end \in {"startLocation", "endLocation"},
             c \in {"latitudeE7", "longitudeE7"} }

\* C28 (as claimed): every record the normalizer produces has integers as
\* latitudeE7 and longitudeE7 (and as centerLatE7 / centerLngE7, which equal
\* them), whatever the coordinate string: never NaN, never undefined.
C28_IntegerCoordinates ==
    SegmentsRead =>
        \A k \in 1..Len(LastRun.combined) :
            LET raw == LastRun.combined[k]
            IN  /\ \A v \in CoordinatesOf(raw) : IsInteger(v)
                /\ truthy(rawVisit(raw)) =>
                       /\ get(rawVisit(raw), "centerLatE7") = get(rawLocation(raw), "latitudeE7")
                       /\ get(rawVisit(raw), "centerLngE7") = get(rawLocation(raw), "longitudeE7")

-----------------------------------------------------------------------------
(* C30 *)

\* C30 (as claimed): whenever results is not null it was computed from
\* exactly the files now selected, also when handleFileUpload or clearFiles
\* ran while the run that computed it was waiting for a file.
C30_ResultsOfCurrentFiles ==
    (RunSucceeded /\ results # Null) => LastRun.files = files

====
